---- MODULE Spec2Model ----
(***************************************************************************)
(* Crawling core of the marathon split tracker: the scheduler              *)
(* (crawler/scheduler.py), the crawler engine (crawler/engine.py), the     *)
(* persistence upserts (core/database.py) and finish detection             *)
(* (webapp/services/prediction.py).                                        *)
(*                                                                         *)
(* Time is read in whole seconds.  Distances are tenths of a kilometre.    *)
(***************************************************************************)
EXTENDS Integers, Sequences, FiniteSets, TLC

VARIABLES
    now,                    \* time.time(), whole seconds
    today,                  \* datetime.now().date(), a day number
    adaptive,               \* CrawlerEngine(use_adaptive_scheduler)
    last_marathon_run,      \* scheduler.last_marathon_run   (absent key = 0)
    failure_count,          \* scheduler.failure_count       (absent key = 0)
    last_participant_fetch, \* scheduler.last_participant_fetch (absent = 0)
    marathons,              \* table marathons
    calls,                  \* the latest scheduler calls of a caller, newest first
    ncalls,                 \* number of state-changing scheduler calls made
    running,                \* CrawlerEngine.running
    pc,                     \* where the engine's main thread is
    todo,                   \* marathons left in "for marathon in marathons"
    participants,           \* table participants
    splits,                 \* table splits, rows in id order
    assets,                 \* table assets, rows in id order
    image_queue,            \* CrawlerEngine.image_queue
    log,                    \* what _process_marathon did, this loop iteration
    CACHE,                  \* fetcher._CACHE: key -> (data, ts)
    futures,                \* participants given to the thread pool, this tick
    myresult_jobs,          \* myresult_jobs of _crawl_participants
    fetches,                \* the fetch() call made for each participant
    in_q,                   \* _MyResultWorker.in_q
    mr_worker,              \* the request _MyResultWorker._run is handling
    out_q,                  \* the private out_q of each caller's request
    image_workers,          \* where each _image_worker thread is
    image_tasks,            \* the local variables of each _image_worker
    files                   \* the files under CERT_DIR: path -> content

schedVars   == <<last_marathon_run, failure_count, last_participant_fetch>>
callerVars  == <<calls, ncalls>>
dbVars      == <<participants, splits, assets>>
fetcherVars == <<CACHE>>
crawlVars   == <<futures, myresult_jobs, fetches, in_q, mr_worker, out_q>>
workerVars  == <<crawlVars, image_workers, image_tasks, files>>
engineVars  == <<running, pc, todo, participants, splits, assets, image_queue,
                 log, fetcherVars, workerVars>>
vars == <<now, today, adaptive, last_marathon_run, failure_count,
          last_participant_fetch, marathons, calls, ncalls, running, pc, todo,
          participants, splits, assets, image_queue, log, CACHE, futures,
          myresult_jobs, fetches, in_q, mr_worker, out_q, image_workers,
          image_tasks, files>>

----------------------------------------------------------------------------
(* Bounds of the model *)

Epoch          == 1700000000  \* clock reading when the process starts
MaxCalls       == 4           \* state-changing scheduler calls of one scenario
MaxGapElapsed  == 7           \* seconds explored by the rate-limit scenario
EngineRefreshSec == 20         \* refresh_sec of the marathon the engine crawls

Marathons      == {1, 2}
Participants   == {1, 2}
RefreshSecs    == {3, 60, 301}

----------------------------------------------------------------------------
(* ScheduleConfig and the adaptive scheduler's backoff settings *)

min_marathon_interval  == 5
min_participant_gap    == 3
participant_gap_jitter == 2
max_backoff            == 300
backoff_multiplier     == 2

Max(a, b) == IF a >= b THEN a ELSE b
Min(a, b) == IF a <= b THEN a ELSE b

RECURSIVE Pow(_, _)
Pow(b, e) == IF e = 0 THEN 1 ELSE b * Pow(b, e - 1)

\* random.random() * participant_gap_jitter lies in [0, 2); against an elapsed
\* time in whole seconds the comparison  elapsed >= gap + x  is the comparison
\* elapsed >= gap + ceil(x), and ceil(x) is 0, 1 or 2.
JitterSamples == 0 .. participant_gap_jitter

----------------------------------------------------------------------------
(* crawler/scheduler.py *)

\* Mutant: the min_marathon_interval floor is forgotten
CrawlerScheduler_should_run_marathon_NoFloor(m, refresh_sec, t) ==
    (t - last_marathon_run[m]) >= refresh_sec

\* CrawlerScheduler.should_run_marathon, called at time t
CrawlerScheduler_should_run_marathon(m, refresh_sec, t) ==
    LET last_run     == last_marathon_run[m]
        min_interval == Max(min_marathon_interval, refresh_sec)
    IN  (t - last_run) >= min_interval

\* AdaptiveScheduler.get_backoff_time
get_backoff_time(m, refresh_sec) ==
    LET failures == failure_count[m]
    IN  IF failures = 0
        THEN refresh_sec
        ELSE Min(refresh_sec * Pow(backoff_multiplier, failures), max_backoff)

\* Mutant: the backoff is not capped at max_backoff
AdaptiveScheduler_should_run_marathon_NoCap(m, refresh_sec, t) ==
    /\ CrawlerScheduler_should_run_marathon(m, refresh_sec, t)
    /\ \/ failure_count[m] = 0
       \/ (t - last_marathon_run[m]) >=
              refresh_sec * Pow(backoff_multiplier, failure_count[m])

\* AdaptiveScheduler.should_run_marathon, called at time t
AdaptiveScheduler_should_run_marathon(m, refresh_sec, t) ==
    IF ~CrawlerScheduler_should_run_marathon(m, refresh_sec, t)
    THEN FALSE
    ELSE LET failures == failure_count[m]
         IN  IF failures = 0
             THEN TRUE
             ELSE LET backoff_sec ==
                          Min(refresh_sec * Pow(backoff_multiplier, failures),
                              max_backoff)
                      last_run == last_marathon_run[m]
                  IN  (t - last_run) >= backoff_sec

\* self.scheduler.should_run_marathon: the method of the scheduler in use
should_run_marathon(m, refresh_sec, t) ==
    IF adaptive
    THEN AdaptiveScheduler_should_run_marathon(m, refresh_sec, t)
    ELSE CrawlerScheduler_should_run_marathon(m, refresh_sec, t)

\* Mutant: last_run is the time at which the tick started
mark_marathon_run_AtStart(lmr, m, t) == [lmr EXCEPT ![m] = now]

\* CrawlerScheduler.mark_marathon_run: the value of last_marathon_run after it
mark_marathon_run(lmr, m, t) == [lmr EXCEPT ![m] = t]

\* Mutant: a success leaves the failure counter as it is
record_success_count_Kept(fc, m) == fc

\* AdaptiveScheduler.record_success: failure_count after it (the key is popped)
record_success_count(fc, m) == [fc EXCEPT ![m] = 0]

\* AdaptiveScheduler.record_failure: failure_count after it
record_failure_count(fc, m) == [fc EXCEPT ![m] = fc[m] + 1]

\* Mutant: the gap is the jitter alone, min_participant_gap is forgotten
can_fetch_participant_JitterOnly(lpf, p, j, t) == (t - lpf[p]) >= j

\* CrawlerScheduler.can_fetch_participant, called at time t with jitter sample j
can_fetch_participant(lpf, p, j, t) ==
    LET last_fetch == lpf[p]
        min_gap    == min_participant_gap + j
    IN  (t - last_fetch) >= min_gap

\* Mutant: the participant is marked a second after the dispatch
mark_participant_fetch_Late(lpf, p, t) == [lpf EXCEPT ![p] = t + 1]

\* CrawlerScheduler.mark_participant_fetch: last_participant_fetch after it
mark_participant_fetch(lpf, p, t) == [lpf EXCEPT ![p] = t]

----------------------------------------------------------------------------
(* Tables of core/database.py: the columns the crawler reads and writes *)

NoDate      == -1    \* event_date IS NULL
InvalidDate == -2    \* event_date that strptime rejects
Today       == 1     \* datetime.now().date(), as a day number
NoKm        == -1    \* point_km / race_total_km IS NULL
NULL        == "NULL"   \* a text column that IS NULL

DefaultRefreshSec == 60     \* refresh_sec INTEGER NOT NULL DEFAULT 60
DefaultTotalKm    == 211    \* total_distance_km REAL NOT NULL DEFAULT 21.1

MarathonRow(refresh_sec, event_date) ==
    [refresh_sec |-> refresh_sec, event_date |-> event_date, enabled |-> 1,
     usedata |-> "202550000001", total_distance_km |-> DefaultTotalKm]

\* Marathon 1 with any refresh period, marathon 2 with the default one
SchedTables ==
    {[m \in Marathons |->
         MarathonRow(IF m = 1 THEN r ELSE DefaultRefreshSec, NoDate)] :
     r \in RefreshSecs}

\* The marathons the engine runs on: marathon 1 refreshes within the life of
\* a cached response, marathon 2 at the default period; one table with no
\* usable event dates, one where marathon 1 is still a day ahead and
\* marathon 2 is held today.
EngineTables ==
    {[m \in Marathons |->
         MarathonRow(IF m = 1 THEN EngineRefreshSec ELSE DefaultRefreshSec,
                     e[m])] :
     e \in {<<NoDate, InvalidDate>>, <<Today + 1, Today>>}}

\* finish_image_path is NULL (or ''): the engine tests its truth value only
NoPath == <<>>

ParticipantRow(marathon_id, nameorbibno, active) ==
    [marathon_id |-> marathon_id, nameorbibno |-> nameorbibno,
     active |-> active, race_label |-> NULL, race_total_km |-> NoKm,
     finish_image_url |-> NULL, finish_image_path |-> NoPath]

\* Participant 1 runs marathon 1; participant 2 of marathon 2 is deactivated
ParticipantsTable ==
    [p \in Participants |->
        IF p = 1 THEN ParticipantRow(1, "101", 1)
                 ELSE ParticipantRow(2, "202", 0)]

SplitRow(pid, s, seen_at) ==
    [participant_id |-> pid, point_label |-> s.point_label,
     point_km |-> s.point_km, net_time |-> s.net_time,
     pass_clock |-> s.pass_clock, pace |-> s.pace, seen_at |-> seen_at]

AssetRow(pid, a, seen_at) ==
    [participant_id |-> pid, kind |-> a.kind, url |-> a.url,
     seen_at |-> seen_at]

\* No fetch() call has been made for a participant; worker and http are what
\* get_mr_worker().fetch and the HTTP client gave to the call, q is the
\* Queue object _MyResultWorker.fetch made for it
NoFetch == [state |-> "none", host |-> "", tried |-> <<>>, result |-> "",
            worker |-> "none", http |-> "none", q |-> 0]

\* _MyResultWorker._run is blocked in in_q.get()
Idle == [pid |-> 0, host |-> "", live |-> FALSE, q |-> 0]

NumImageWorkers == 3     \* _start_image_workers(num_workers=3)

\* An _image_worker thread that holds no task
NoTask == [pid |-> 0, p_row |-> NoPath, offset |-> 0]

\* CrawlerEngine.__init__: nothing queued, no thread started
EngineNotStarted ==
    /\ running = FALSE
    /\ pc = "init"
    /\ todo = <<>>
    /\ participants = ParticipantsTable
    /\ splits = <<>>
    /\ assets = <<>>
    /\ image_queue = <<>>
    /\ log = <<>>
    /\ CACHE = <<>>
    /\ futures = {}
    /\ myresult_jobs = <<>>
    /\ fetches = [p \in Participants |-> NoFetch]
    /\ in_q = <<>>
    /\ mr_worker = Idle
    /\ out_q = [p \in Participants |-> <<>>]
    /\ image_workers = [w \in 1 .. NumImageWorkers |-> "new"]
    /\ image_tasks = [w \in 1 .. NumImageWorkers |-> NoTask]
    /\ files = <<>>

----------------------------------------------------------------------------
(* What parse() makes of a provider page.  A time text is <<>> when empty   *)
(* and <<h, m, s>> when it reads hh:mm:ss.                                  *)

T(h, m, s) == <<h, m, s>>

\* utils/time_utils.looks_time on these texts
looks_time(text) == Len(text) = 3

Split(label, km, net, clk, pace) ==
    [point_label |-> label, point_km |-> km, net_time |-> net,
     pass_clock |-> clk, pace |-> pace]

Page(rows, label, km) ==
    [splits |-> rows, race_label |-> label, race_total_km |-> km,
     assets |-> <<>>, parses |-> TRUE]

Row10km   == Split("10km", 100, T(0, 50, 0), T(9, 50, 0), "05:00")

PageEmpty       == Page(<<>>, NULL, NoKm)
PageRunning     == Page(<<Row10km>>, "Half", NoKm)
PageFinish      == Page(<<Row10km,
                          Split("Finish", NoKm, T(1, 45, 0), <<>>, "")>>,
                        "Half", DefaultTotalKm)
PageFinishBlank == Page(<<Row10km,
                          Split("Finish", NoKm, <<>>, <<>>, "05:00")>>,
                        NULL, NoKm)
PageFinishClock == Page(<<Row10km,
                          Split("Finish", NoKm, <<>>, T(10, 45, 0), "")>>,
                        NULL, NoKm)
PageFull        == Page(<<Split("42.2km", 422, T(3, 59, 0), T(12, 59, 0),
                                "05:40")>>,
                        NULL, NoKm)

\* The assets SmartchipParser._extract_assets finds: a link to the
\* certificate and a live photo, each with its URL
CertificateUrl == 11
LivephotoUrl   == 12
PageAssets ==
    <<[kind |-> "certificate", url |-> CertificateUrl],
      [kind |-> "livephoto", url |-> LivephotoUrl]>>

PageFinishPhotos == [PageFinish EXCEPT !.assets = PageAssets]

\* Pages a provider can serve for a participant: an error page or no table,
\* a runner under way, a finisher with a net time, a Finish row whose time
\* cells are empty, a Finish row with a clock only, a last row at full
\* distance, a finisher's page with a certificate link and a live photo
Pages == {PageEmpty, PageRunning, PageFinish, PageFinishBlank,
          PageFinishClock, PageFull, PageFinishPhotos}

----------------------------------------------------------------------------
(* utils/distance_utils.py and config/constants.py, distances in tenths *)

STANDARD_DISTANCES == <<50, 100, 211, 422, 500, 1000, 1090>>

Abs(x) == IF x < 0 THEN -x ELSE x

\* km_from_label on the labels the pages carry
km_from_label(label) ==
    IF label = "10km" THEN 100
    ELSE IF label = "42.2km" THEN 422
    ELSE NoKm

\* is_finish_label: the label contains one of FINISH_KEYWORDS
is_finish_label(label) == label \in {"Finish", "finish", "Goal"}

\* engine.py's own test: "finish" in label.lower() or the Korean for arrival
has_finish_word(label) == label \in {"Finish", "finish"}

\* Python floats.  A distance of t tenths stands for the double nearest to
\* t / 10 (what float("20.5") and the literal 21.1 are).  binary_exponent is
\* the e with 2^e <= t / 10 < 2^(e + 1), for 0.1 <= t / 10 < 128.
binary_exponent(t) ==
    IF t < 10
    THEN - (CHOOSE n \in 1 .. 4 :
               10 <= t * Pow(2, n) /\ t * Pow(2, n) < 20)
    ELSE CHOOSE e \in 0 .. 6 : 10 * Pow(2, e) <= t /\ t < 10 * Pow(2, e + 1)

\* The double has 52 - e fractional bits; what is cut off after them is
\* rem / 10 of the last bit, with rem = (t * 2^(52 - e)) mod 10
float_rem(t) ==
    LET k == 52 - binary_exponent(t)
    IN  ((t % 10) * (Pow(2, (k % 4) + 4) % 10)) % 10

\* float(t / 10) - t / 10 in units of 2^-56 / 10, round to nearest (rem = 5
\* does not occur: t * 2^k is even)
float_err(t) ==
    LET last_bit == Pow(2, binary_exponent(t) + 4)
    IN  IF float_rem(t) < 5 THEN - float_rem(t) * last_bit
        ELSE (10 - float_rem(t)) * last_bit

\* abs(a - b) <= tol on doubles: the subtraction of doubles within a factor
\* of two of each other is exact, so at a difference of exactly tol tenths the
\* rounding errors of a, b and tol decide
float_abs_le(a, b, tol) ==
    \/ Abs(a - b) < tol
    \/ /\ Abs(a - b) = tol
       /\ (IF a >= b THEN float_err(a) - float_err(b)
                     ELSE float_err(b) - float_err(a)) <= float_err(tol)

\* (a / b) >= 0.9 on doubles.  At a = 0.9 b the divisor is a whole number of
\* km, hence exact, and the quotient is 0.9 + err(a) / b; it is rounded to a
\* double not below the literal 0.9 when it lies no lower than half a last
\* bit (40 units) under that literal
float_div_ge_0_9(a, b) ==
    \/ 10 * a > 9 * b
    \/ /\ 10 * a = 9 * b
       /\ 10 * float_err(a) >= (float_err(9) - 40) * b

\* snap_distance: the nearest standard distance when abs(best - km) <= 0.6
snap_distance(km) ==
    IF km = NoKm \/ km <= 0 THEN NoKm
    ELSE LET best == STANDARD_DISTANCES[
                       CHOOSE i \in DOMAIN STANDARD_DISTANCES :
                         /\ \A k \in DOMAIN STANDARD_DISTANCES :
                               Abs(STANDARD_DISTANCES[i] - km) <=
                                   Abs(STANDARD_DISTANCES[k] - km)
                         /\ \A k \in 1 .. (i - 1) :
                               Abs(STANDARD_DISTANCES[k] - km) >
                                   Abs(STANDARD_DISTANCES[i] - km)]
         IN  IF float_abs_le(best, km, 6) THEN best ELSE km

\* DISTANCE_TOLERANCE, first matching range in the dict's order
distance_tolerance(snapped_km) ==
    IF snapped_km >= 400 THEN 30
    ELSE IF 200 <= snapped_km /\ snapped_km < 400 THEN 8
    ELSE IF 150 <= snapped_km /\ snapped_km < 200 THEN 8
    ELSE IF 100 <= snapped_km /\ snapped_km < 150 THEN 10
    ELSE IF 50 <= snapped_km /\ snapped_km < 100 THEN 6
    ELSE IF 0 <= snapped_km /\ snapped_km < 50 THEN 4
    ELSE 5

\* Mutant: the last split must lie beyond the total minus 1 km
ensure_finish_label_Strict(rows, race_total_km) ==
    IF rows = <<>> THEN rows
    ELSE LET last   == rows[Len(rows)]
             kmf    == last.point_km
             target == IF race_total_km \in {NoKm, 0} THEN NoKm
                       ELSE race_total_km
             relabel ==
                 /\ ~is_finish_label(last.point_label)
                 /\ kmf # NoKm
                 /\ IF target # NoKm THEN kmf > target - 10
                    ELSE 415 <= kmf /\ kmf <= 430
         IN  IF relabel
             THEN [rows EXCEPT ![Len(rows)].point_label = "Finish"]
             ELSE rows

\* ensure_finish_label: the last split is relabelled Finish when its distance
\* reaches the total minus 1 km, or lies in 41.5..43.0 when no total is known
ensure_finish_label(rows, race_total_km) ==
    IF rows = <<>> THEN rows
    ELSE LET last   == rows[Len(rows)]
             kmf    == last.point_km
             target == IF race_total_km \in {NoKm, 0} THEN NoKm
                       ELSE race_total_km
             relabel ==
                 /\ ~is_finish_label(last.point_label)
                 /\ kmf # NoKm
                 /\ IF target # NoKm THEN kmf >= target - 10
                    ELSE 415 <= kmf /\ kmf <= 430
         IN  IF relabel
             THEN [rows EXCEPT ![Len(rows)].point_label = "Finish"]
             ELSE rows

----------------------------------------------------------------------------
(* webapp/services/prediction.py and records.py *)

\* The stored splits of a participant, ORDER BY id
StoredSplits(tbl, pid) == SelectSeq(tbl, LAMBDA r : r.participant_id = pid)

\* looks_time(net) or looks_time(clk) or net or clk
carries_time(r) == r.net_time # <<>> \/ r.pass_clock # <<>>

\* s.get("point_km") or km_from_label(label)
split_km(r) ==
    IF r.point_km \notin {NoKm, 0} THEN r.point_km
    ELSE km_from_label(r.point_label)

NotFinished ==
    [finished |-> FALSE, finish_point |-> NULL, finish_net |-> <<>>,
     finish_clock |-> <<>>]

FinishedAt(r) ==
    [finished |-> TRUE, finish_point |-> r.point_label,
     finish_net |-> r.net_time, finish_clock |-> r.pass_clock]

\* PredictionService.check_finish_status(splits, total_km)
check_finish_status(rows, total_km) ==
    IF rows = <<>> THEN NotFinished
    ELSE
    LET n == Len(rows)
        finish_rows == {i \in 1 .. n : is_finish_label(rows[i].point_label)}
        last_finish == CHOOSE i \in finish_rows : \A k \in finish_rows : k <= i
        snapped_km  == IF snap_distance(total_km) # NoKm
                       THEN snap_distance(total_km) ELSE total_km
        tolerance   == distance_tolerance(snapped_km)
        near == {i \in 1 .. n :
                    /\ split_km(rows[i]) # NoKm
                    /\ float_abs_le(split_km(rows[i]), snapped_km, tolerance)
                    /\ carries_time(rows[i])}
        last_near == CHOOSE i \in near : \A k \in near : k <= i
        last_km == split_km(rows[n])
    IN  IF finish_rows # {} /\ carries_time(rows[last_finish])
        THEN FinishedAt(rows[last_finish])
        ELSE IF near # {}
        THEN FinishedAt(rows[last_near])
        ELSE IF /\ total_km > 0
                /\ last_km # NoKm
                /\ float_div_ge_0_9(last_km, total_km)
                /\ carries_time(rows[n])
        THEN FinishedAt(rows[n])
        ELSE NotFinished

\* total_km as the web app passes it: race_total_km or total_distance_km
total_km_of(ptbl, pid) ==
    IF ptbl[pid].race_total_km \notin {NoKm, 0}
    THEN ptbl[pid].race_total_km
    ELSE marathons[ptbl[pid].marathon_id].total_distance_km

\* The finish status the web app shows for a participant
finish_status(ptbl, stbl, pid) ==
    check_finish_status(StoredSplits(stbl, pid), total_km_of(ptbl, pid))

RECURSIVE SortedSeq(_)
SortedSeq(S) ==
    IF S = {} THEN <<>>
    ELSE LET x == CHOOSE x \in S : \A y \in S : x <= y
         IN  <<x>> \o SortedSeq(S \ {x})

\* substr(pass_clock,1,2)*3600 + substr(pass_clock,4,2)*60 + substr(...,7,2)
clock_seconds(clk) == clk[1] * 3600 + clk[2] * 60 + clk[3]

\* f"{h:02d}:{m:02d}:{s:02d}"
format_hms(total_seconds) ==
    T(total_seconds \div 3600, (total_seconds % 3600) \div 60,
      (total_seconds % 3600) % 60)

\* Mutant: the difference of the two clocks, whatever its sign
gap_sec_NoWrap(prev_sec, sec) == sec - prev_sec

\* gap_sec of CALC_NET_TIME_SQL: a clock that went down passed midnight
gap_sec(prev_sec, sec) ==
    IF sec < prev_sec THEN (sec + 86400) - prev_sec ELSE sec - prev_sec

RECURSIVE sum_gaps(_)
sum_gaps(secs) ==
    IF Len(secs) < 2 THEN 0
    ELSE gap_sec(secs[1], secs[2]) + sum_gaps(Tail(secs))

\* RecordsService._calculate_net_time_from_clocks over the stored splits:
\* clocks of at least 8 characters, the newest row per point_km, in point_km
\* order (NULL first); <<>> stands for None.  No two stored rows of the pages
\* above share a point_km, so the newest row per point_km is unique.
calculate_net_time_from_clocks(tbl, pid) ==
    LET base == {i \in 1 .. Len(tbl) :
                    tbl[i].participant_id = pid /\ Len(tbl[i].pass_clock) = 3}
        kms  == {tbl[i].point_km : i \in base}
        rn1(km) == CHOOSE i \in base :
                      /\ tbl[i].point_km = km
                      /\ \A k \in base : tbl[k].point_km = km =>
                                            tbl[k].seen_at <= tbl[i].seen_at
        ordered == SortedSeq(kms)
        secs == [x \in 1 .. Len(ordered) |->
                    clock_seconds(tbl[rn1(ordered[x])].pass_clock)]
    IN  IF Len(ordered) < 2 THEN <<>> ELSE format_hms(sum_gaps(secs))

----------------------------------------------------------------------------
(* crawler/fetcher.py: the response cache *)

CACHE_TTL == 30     \* _CACHE_TTL

\* What fetch() does when fetch_cached calls it: it raises, or returns data
Upstream(raises, data) == [raises |-> raises, data |-> data]

\* Mutant: a stored response never expires
fetch_cached_NoExpiry(c, key, t, up) ==
    IF key \in DOMAIN c
    THEN [cache |-> c, upstream |-> FALSE, raised |-> FALSE,
          data |-> c[key].data]
    ELSE IF up.raises
    THEN [cache |-> c, upstream |-> TRUE, raised |-> TRUE, data |-> up.data]
    ELSE [cache |-> (key :> [data |-> up.data, ts |-> t]) @@ c,
          upstream |-> TRUE, raised |-> FALSE, data |-> up.data]

\* fetch_cached at time t for a key: a stored response younger than the TTL
\* is returned and fetch() is not called; otherwise fetch() is called, and
\* what it returns is stored with the time read before the call
fetch_cached(c, key, t, up) ==
    IF key \in DOMAIN c /\ t - c[key].ts < CACHE_TTL
    THEN [cache |-> c, upstream |-> FALSE, raised |-> FALSE,
          data |-> c[key].data]
    ELSE IF up.raises
    THEN [cache |-> c, upstream |-> TRUE, raised |-> TRUE, data |-> up.data]
    ELSE [cache |-> (key :> [data |-> up.data, ts |-> t]) @@ c,
          upstream |-> TRUE, raised |-> FALSE, data |-> up.data]

----------------------------------------------------------------------------
(* crawler/engine.py: crawling *)

\* The certificate asset _crawl_one infers when the parser found none
inferred_assets(mid, pid) ==
    IF marathons[mid].usedata # "" /\ participants[pid].nameorbibno # ""
    THEN <<[kind |-> "certificate", url |-> pid]>>
    ELSE <<>>

\* CrawlerEngine._crawl_one: (pid, splits, meta, assets) from a parsed page
crawl_one(mid, pid, page) ==
    [pid    |-> pid,
     splits |-> ensure_finish_label(page.splits, page.race_total_km),
     meta   |-> [race_label |-> page.race_label,
                 race_total_km |-> page.race_total_km],
     assets |-> IF page.assets # <<>> THEN page.assets
                ELSE inferred_assets(mid, pid)]

\* A response on which parse() raises
Unparsable == [PageEmpty EXCEPT !.parses = FALSE]

\* What happens to one participant's fetch: the jitter drawn by the rate
\* limit; the page the provider serves, or a fetch() that raises; a task
\* that raises in the worker pool
FetchInputs ==
    {[j |-> j, page |-> pg, fetch_raises |-> FALSE, raises |-> FALSE] :
        j \in JitterSamples, pg \in Pages \cup {Unparsable}}
    \cup {[j |-> j, page |-> PageEmpty, fetch_raises |-> TRUE,
            raises |-> FALSE] : j \in JitterSamples}
    \cup {[j |-> j, page |-> PageEmpty, fetch_raises |-> FALSE,
            raises |-> TRUE] : j \in JitterSamples}

\* What _crawl_one has after parsing: nothing when fetch_cached raised and
\* the text is "", nothing when parse() raised and data is {}
parsed(got) ==
    IF got.raised \/ ~got.data.parses THEN PageEmpty ELSE got.data

\* Mutant: an exception of a pool task is raised again by the collecting loop
propagates_Task(kind) == kind = "task"

\* Whether a participant's failure leaves _crawl_participants as an
\* exception: the fetch and the parse are inside try blocks of _crawl_one,
\* future.result() and the serial call inside try blocks of the loops
propagates(kind) == FALSE

\* CrawlerEngine._crawl_participants from participant ps[1] on, at time t:
\* the rate limit, the fetch mark, the cache, the results that came back,
\* the participants dispatched and those whose fetch raised
RECURSIVE crawl_participants(_, _, _, _, _, _)
crawl_participants(mid, ps, inp, lpf, c, t) ==
    IF ps = <<>>
    THEN [lpf |-> lpf, cache |-> c, results |-> <<>>, fetched |-> {},
          failed |-> {}, unparsed |-> {}, raised |-> {}, cause |-> "none"]
    ELSE LET pid  == Head(ps)
             ok   == can_fetch_participant(lpf, pid, inp[pid].j, t)
             lpf1 == IF ok THEN mark_participant_fetch(lpf, pid, t) ELSE lpf
             got  == fetch_cached(c, pid, t,
                                  Upstream(inp[pid].fetch_raises,
                                           inp[pid].page))
             rest == crawl_participants(mid, Tail(ps), inp, lpf1,
                                        IF ok THEN got.cache ELSE c, t)
         IN  [lpf     |-> rest.lpf,
              cache   |-> rest.cache,
              results |-> IF ok /\ ~inp[pid].raises
                          THEN <<crawl_one(mid, pid, parsed(got))>>
                                   \o rest.results
                          ELSE rest.results,
              fetched |-> IF ok THEN {pid} \cup rest.fetched
                          ELSE rest.fetched,
              failed  |-> IF ok /\ got.raised THEN {pid} \cup rest.failed
                          ELSE rest.failed,
              unparsed |-> IF ok /\ ~got.raised /\ ~got.data.parses
                           THEN {pid} \cup rest.unparsed
                           ELSE rest.unparsed,
              raised  |-> IF ok /\ inp[pid].raises
                          THEN {pid} \cup rest.raised ELSE rest.raised,
              cause   |-> IF ok /\ (\/ got.raised /\ propagates("fetch")
                                    \/ ~got.raised /\ ~got.data.parses
                                          /\ propagates("parse")
                                    \/ inp[pid].raises /\ propagates("task"))
                          THEN "participant" ELSE rest.cause]

\* SELECT * FROM participants WHERE marathon_id=? AND active=1
active_participants(mid) ==
    SortedSeq({p \in Participants :
                  participants[p].marathon_id = mid
                  /\ participants[p].active = 1})

----------------------------------------------------------------------------
(* crawler/engine.py: saving *)

\* is_finished of _save_results: a split of the result has the finish word
is_finished(r) ==
    \E i \in 1 .. Len(r.splits) : has_finish_word(r.splits[i].point_label)

RECURSIVE split_batch(_, _)
split_batch(results, now_iso) ==
    IF results = <<>> THEN <<>>
    ELSE LET r == Head(results)
         IN  [i \in 1 .. Len(r.splits) |->
                 SplitRow(r.pid, r.splits[i], now_iso)]
             \o split_batch(Tail(results), now_iso)

RECURSIVE asset_batch(_, _)
asset_batch(results, now_iso) ==
    IF results = <<>> THEN <<>>
    ELSE LET r == Head(results)
         IN  [i \in 1 .. Len(r.assets) |->
                 AssetRow(r.pid, r.assets[i], now_iso)]
             \o asset_batch(Tail(results), now_iso)

\* The download jobs _save_results puts on image_queue while it builds the
\* batches: one per asset of a result that is finished
RECURSIVE image_jobs(_)
image_jobs(results) ==
    IF results = <<>> THEN <<>>
    ELSE LET r == Head(results)
         IN  (IF participants[r.pid].nameorbibno # "" /\ is_finished(r)
              THEN [i \in 1 .. Len(r.assets) |->
                       [pid |-> r.pid, url |-> r.assets[i].url]]
              ELSE <<>>)
             \o image_jobs(Tail(results))

\* Mutant: the UPDATE assigns the parameters without COALESCE
RECURSIVE update_meta_Overwrite(_, _)
update_meta_Overwrite(ptbl, results) ==
    IF results = <<>> THEN ptbl
    ELSE LET r == Head(results)
             row == ptbl[r.pid]
             new == [row EXCEPT !.race_label = r.meta.race_label,
                                !.race_total_km = r.meta.race_total_km]
         IN  update_meta_Overwrite([ptbl EXCEPT ![r.pid] = new],
                                   Tail(results))

\* UPDATE participants SET race_label = COALESCE(?, race_label),
\*                         race_total_km = COALESCE(?, race_total_km)
RECURSIVE update_meta(_, _)
update_meta(ptbl, results) ==
    IF results = <<>> THEN ptbl
    ELSE LET r == Head(results)
             row == ptbl[r.pid]
             new == [row EXCEPT
                       !.race_label = IF r.meta.race_label # NULL
                                      THEN r.meta.race_label ELSE @,
                       !.race_total_km = IF r.meta.race_total_km # NoKm
                                         THEN r.meta.race_total_km ELSE @]
         IN  update_meta([ptbl EXCEPT ![r.pid] = new], Tail(results))

\* pids_to_recalc: a finish row with a clock and no time-shaped net_time
pids_to_recalc(batch) ==
    {batch[i].participant_id : i \in
        {k \in 1 .. Len(batch) :
            /\ has_finish_word(batch[k].point_label)
            /\ batch[k].pass_clock # <<>>
            /\ ~looks_time(batch[k].net_time)}}

\* The batch after the net_time of those finish rows has been recalculated
\* from the clocks stored so far
recalculated(batch, stbl) ==
    [i \in 1 .. Len(batch) |->
        LET b == batch[i]
            calculated_net ==
                calculate_net_time_from_clocks(stbl, b.participant_id)
        IN  IF /\ b.participant_id \in pids_to_recalc(batch)
               /\ has_finish_word(b.point_label)
               /\ calculated_net # <<>>
            THEN [b EXCEPT !.net_time = calculated_net]
            ELSE b]

\* Mutant: INSERT OR REPLACE, the old row goes and a new one is appended
upsert_split_Replace(stbl, b) ==
    SelectSeq(stbl, LAMBDA r : ~(r.participant_id = b.participant_id
                                 /\ r.point_label = b.point_label))
    \o <<b>>

\* Mutant: the conflict clause leaves seen_at out
upsert_split_StaleSeenAt(stbl, b) ==
    LET hit == {i \in 1 .. Len(stbl) :
                   /\ stbl[i].participant_id = b.participant_id
                   /\ stbl[i].point_label = b.point_label}
    IN  IF hit = {} THEN Append(stbl, b)
        ELSE [i \in 1 .. Len(stbl) |->
                 IF i \in hit
                 THEN [stbl[i] EXCEPT !.net_time = b.net_time,
                                      !.pass_clock = b.pass_clock,
                                      !.pace = b.pace]
                 ELSE stbl[i]]

\* Mutant: the conflict clause sets point_km as well
upsert_split_AllColumns(stbl, b) ==
    LET hit == {i \in 1 .. Len(stbl) :
                   /\ stbl[i].participant_id = b.participant_id
                   /\ stbl[i].point_label = b.point_label}
    IN  IF hit = {} THEN Append(stbl, b)
        ELSE [i \in 1 .. Len(stbl) |->
                 IF i \in hit
                 THEN [b EXCEPT !.participant_id = stbl[i].participant_id]
                 ELSE stbl[i]]

\* INSERT INTO splits ... ON CONFLICT(participant_id, point_label) DO UPDATE
\* SET net_time, pass_clock, pace, seen_at
upsert_split(stbl, b) ==
    LET hit == {i \in 1 .. Len(stbl) :
                   /\ stbl[i].participant_id = b.participant_id
                   /\ stbl[i].point_label = b.point_label}
    IN  IF hit = {} THEN Append(stbl, b)
        ELSE [i \in 1 .. Len(stbl) |->
                 IF i \in hit
                 THEN [stbl[i] EXCEPT !.net_time = b.net_time,
                                      !.pass_clock = b.pass_clock,
                                      !.pace = b.pace,
                                      !.seen_at = b.seen_at]
                 ELSE stbl[i]]

RECURSIVE upsert_splits(_, _)
upsert_splits(stbl, batch) ==
    IF batch = <<>> THEN stbl
    ELSE upsert_splits(upsert_split(stbl, Head(batch)), Tail(batch))

\* INSERT INTO assets ... ON CONFLICT(participant_id, kind) DO UPDATE
\* SET url, host, seen_at
upsert_asset(atbl, a) ==
    LET hit == {i \in 1 .. Len(atbl) :
                   /\ atbl[i].participant_id = a.participant_id
                   /\ atbl[i].kind = a.kind}
    IN  IF hit = {} THEN Append(atbl, a)
        ELSE [i \in 1 .. Len(atbl) |->
                 IF i \in hit
                 THEN [atbl[i] EXCEPT !.url = a.url, !.seen_at = a.seen_at]
                 ELSE atbl[i]]

RECURSIVE upsert_assets(_, _)
upsert_assets(atbl, batch) ==
    IF batch = <<>> THEN atbl
    ELSE upsert_assets(upsert_asset(atbl, Head(batch)), Tail(batch))

BatchKeys(batch) ==
    {<<batch[i].participant_id, batch[i].point_label>> :
        i \in 1 .. Len(batch)}

\* Where the transaction of _save_results can raise
FailPoints == {"none", "meta", "splits", "assets", "commit"}

\* The statements of the transaction, in the order of the code; a statement
\* whose batch is empty is skipped
statements(results, batch, abatch) ==
    (IF results # <<>> THEN <<"meta">> ELSE <<>>)
    \o (IF batch # <<>> THEN <<"splits">> ELSE <<>>)
    \o (IF abatch # <<>> THEN <<"assets">> ELSE <<>>)
    \o <<"commit">>

\* The statements that ran before the one that raised
executed(stmts, fail_at) ==
    IF \E i \in 1 .. Len(stmts) : stmts[i] = fail_at
    THEN SubSeq(stmts, 1, (CHOOSE i \in 1 .. Len(stmts) :
                                stmts[i] = fail_at) - 1)
    ELSE stmts

\* The tables as the connection sees them after the statements ran, in order
RECURSIVE execute(_, _, _, _, _)
execute(tables, stmts, results, batch, abatch) ==
    IF stmts = <<>> THEN tables
    ELSE LET stmt == Head(stmts)
             next ==
               IF stmt = "meta"
               THEN [tables EXCEPT
                       !.participants = update_meta(@, results)]
               ELSE IF stmt = "splits"
               THEN [tables EXCEPT !.splits = upsert_splits(@, batch)]
               ELSE IF stmt = "assets"
               THEN [tables EXCEPT !.assets = upsert_assets(@, abatch)]
               ELSE tables
         IN  execute(next, Tail(stmts), results, batch, abatch)

\* Mutant: a connection in autocommit mode, every statement is kept
get_db_close_Autocommit(before, work, committed) == work

\* get_db closes the connection: what was not committed is rolled back
get_db_close(before, work, committed) ==
    IF committed THEN work ELSE before

\* CrawlerEngine._save_results at now_iso: the download jobs are queued while
\* the batches are built; the three batches are written in one transaction,
\* and a failure of it is printed, not raised.
save_results(results, now_iso, fail_at) ==
    LET batch  == recalculated(split_batch(results, now_iso), splits)
        abatch == asset_batch(results, now_iso)
        before == [participants |-> participants, splits |-> splits,
                   assets |-> assets]
        stmts  == statements(results, batch, abatch)
        ran    == executed(stmts, fail_at)
        work   == execute(before, ran, results, batch, abatch)
        committed == ran = stmts
    IN  IF results = <<>>
        THEN before @@ [image_queue |-> image_queue, keys |-> {},
                        db |-> "none"]
        ELSE get_db_close(before, work, committed)
             @@ [image_queue |-> image_queue \o image_jobs(results),
                 keys        |-> BatchKeys(batch),
                 db          |-> IF committed THEN "committed"
                                 ELSE "failed"]

----------------------------------------------------------------------------
(* A caller of the scheduler: the calls of the module's usage example and  *)
(* of the engine, made one at a time in any order.                         *)

Call(op, id, arg, result, n) ==
    [op |-> op, id |-> id, arg |-> arg, result |-> result, n |-> n]

\* The caller remembers its latest len calls
Remember(c, len) == SubSeq(<<c>> \o calls, 1, Min(len, Len(calls) + 1))

SchedInit ==
    /\ now = Epoch
    /\ today = 0
    /\ adaptive \in BOOLEAN
    /\ last_marathon_run = [m \in Marathons |-> 0]
    /\ failure_count = [m \in Marathons |-> 0]
    /\ last_participant_fetch = [p \in Participants |-> 0]
    /\ marathons \in SchedTables
    /\ calls = <<>>
    /\ ncalls = 0
    /\ EngineNotStarted

Call_should_run_marathon(m) ==
    LET refresh_sec == marathons[m].refresh_sec
    IN  /\ calls' = Remember(Call("should_run_marathon", m, refresh_sec,
                                  should_run_marathon(m, refresh_sec, now), 0), 1)
        /\ UNCHANGED <<now, today, adaptive, schedVars, marathons, ncalls,
                   engineVars>>

Call_mark_marathon_run(m) ==
    /\ ncalls < MaxCalls
    /\ last_marathon_run' = mark_marathon_run(last_marathon_run, m, now)
    /\ ncalls' = ncalls + 1
    /\ calls' = Remember(Call("mark_marathon_run", m, 0, FALSE, ncalls'), 1)
    /\ UNCHANGED <<now, today, adaptive, failure_count, last_participant_fetch,
                   marathons, engineVars>>

Call_record_success(m) ==
    /\ adaptive
    /\ ncalls < MaxCalls
    /\ last_marathon_run' = mark_marathon_run(last_marathon_run, m, now)
    /\ failure_count' = record_success_count(failure_count, m)
    /\ ncalls' = ncalls + 1
    /\ calls' = Remember(Call("record_success", m, 0, FALSE, ncalls'), 1)
    /\ UNCHANGED <<now, today, adaptive, last_participant_fetch, marathons,
                   engineVars>>

Call_record_failure(m) ==
    /\ adaptive
    /\ ncalls < MaxCalls
    /\ last_marathon_run' = mark_marathon_run(last_marathon_run, m, now)
    /\ failure_count' = record_failure_count(failure_count, m)
    /\ ncalls' = ncalls + 1
    /\ calls' = Remember(Call("record_failure", m, 0, FALSE, ncalls'), 1)
    /\ UNCHANGED <<now, today, adaptive, last_participant_fetch, marathons,
                   engineVars>>

\* The intervals at which the admission of marathon m can change
AdmitIntervals(m) ==
    LET r == marathons[m].refresh_sec
    IN  {Max(min_marathon_interval, r), get_backoff_time(m, r)}

\* Time passes until one second before, or exactly, such an interval after
\* the last run of a marathon.
SchedSleep(m, early) ==
    /\ last_marathon_run[m] > 0
    /\ \E i \in AdmitIntervals(m) :
          /\ last_marathon_run[m] + i - early > now
          /\ now' = last_marathon_run[m] + i - early
    /\ UNCHANGED <<today, adaptive, schedVars, marathons, callerVars,
                   engineVars>>

SchedNext ==
    \/ \E m \in Marathons : Call_should_run_marathon(m)
    \/ \E m \in Marathons : Call_mark_marathon_run(m)
    \/ \E m \in Marathons : Call_record_success(m)
    \/ \E m \in Marathons : Call_record_failure(m)
    \/ \E m \in Marathons, early \in {0, 1} : SchedSleep(m, early)

SchedSpec == SchedInit /\ [][SchedNext]_vars

----------------------------------------------------------------------------
(* The per-participant rate limit, called by a caller that may or may not  *)
(* mark the fetch after asking.                                            *)

GapInit ==
    /\ now = Epoch
    /\ today = 0
    /\ adaptive = FALSE
    /\ last_marathon_run = [m \in Marathons |-> 0]
    /\ failure_count = [m \in Marathons |-> 0]
    /\ last_participant_fetch = [p \in Participants |-> 0]
    /\ marathons = [m \in Marathons |-> MarathonRow(DefaultRefreshSec, NoDate)]
    /\ calls = <<>>
    /\ ncalls = 0
    /\ EngineNotStarted

Call_can_fetch_participant(p, j) ==
    /\ calls' = Remember(Call("can_fetch_participant", p, now,
                              can_fetch_participant(last_participant_fetch,
                                                    p, j, now), 0), 3)
    /\ UNCHANGED <<now, today, adaptive, schedVars, marathons, ncalls,
                   engineVars>>

Call_mark_participant_fetch(p) ==
    /\ last_participant_fetch' =
           mark_participant_fetch(last_participant_fetch, p, now)
    /\ calls' = Remember(Call("mark_participant_fetch", p, now, FALSE, 0),
                         3)
    /\ UNCHANGED <<now, today, adaptive, last_marathon_run, failure_count,
                   marathons, ncalls, engineVars>>

GapSleep ==
    /\ now - Epoch < MaxGapElapsed
    /\ now' = now + 1
    /\ UNCHANGED <<today, adaptive, schedVars, marathons, callerVars,
                   engineVars>>

GapNext ==
    \/ \E p \in Participants, j \in JitterSamples :
          Call_can_fetch_participant(p, j)
    \/ \E p \in Participants : Call_mark_participant_fetch(p)
    \/ GapSleep

GapSpec == GapInit /\ [][GapNext]_vars

----------------------------------------------------------------------------
(* crawler/engine.py: the engine *)

MaxElapsed      == 45    \* seconds of engine run time explored
Sentinel == [pid |-> 0, url |-> 0]     \* the None put on image_queue

\* Seconds a crawl takes, as the clock in whole seconds shows it
Durations == {0, 1}

\* Where _process_marathon can raise inside its try block: the participants
\* query, or the crawl after fetches have been dispatched
RaisePoints == {"none", "query", "crawl"}

Init ==
    /\ now = Epoch
    /\ today = Today
    /\ adaptive \in BOOLEAN
    /\ last_marathon_run = [m \in Marathons |-> 0]
    /\ failure_count = [m \in Marathons |-> 0]
    /\ last_participant_fetch = [p \in Participants |-> 0]
    /\ marathons \in EngineTables
    /\ calls = <<>>
    /\ ncalls = 0
    /\ EngineNotStarted

\* CrawlerEngine.run up to the main loop: the image workers are started
run ==
    /\ pc = "init"
    /\ image_workers' = [w \in 1 .. NumImageWorkers |-> "get"]
    /\ running' = TRUE
    /\ pc' = "query"
    /\ UNCHANGED <<now, today, adaptive, schedVars, marathons, callerVars,
                   todo, dbVars, image_queue, log, fetcherVars, crawlVars,
                   image_tasks, files>>

\* _main_loop: SELECT * FROM marathons WHERE enabled=1; a failing query is
\* printed and the iteration has nothing to process
main_loop_query ==
    /\ pc = "query"
    /\ running
    /\ \E ok \in BOOLEAN :
          todo' = IF ok
                  THEN SortedSeq({m \in Marathons : marathons[m].enabled = 1})
                  ELSE <<>>
    /\ pc' = "for"
    /\ log' = <<>>
    /\ UNCHANGED <<now, today, adaptive, schedVars, marathons, callerVars,
                   running, dbVars, image_queue, fetcherVars,
                   workerVars>>

\* Mutant: the event date is never looked at
before_event_date_Never(event_date, day) == FALSE

\* today < event_date, for an event_date that strptime accepts
before_event_date(event_date, day) ==
    event_date \notin {NoDate, InvalidDate} /\ day < event_date

\* int(marathon["refresh_sec"] or 60)
refresh_sec_of(marathon) ==
    IF marathon.refresh_sec = 0 THEN DefaultRefreshSec
    ELSE marathon.refresh_sec

\* The marathons _process_marathon would crawl at time t
due(t) ==
    {m \in Marathons :
        /\ marathons[m].enabled = 1
        /\ ~before_event_date(marathons[m].event_date, today)
        /\ should_run_marathon(m, refresh_sec_of(marathons[m]), t)}

\* The times after now at which the admission of a marathon can change
next_due_times ==
    {t \in UNION {{last_marathon_run[m] + i : i \in AdmitIntervals(m)} :
                     m \in Marathons} :
        t > now /\ t - Epoch <= MaxElapsed}

\* _main_loop: time.sleep(0.1) after the last marathon of the iteration.
\* The clock in whole seconds stays; or, with no marathon due, the
\* iterations that find nothing to crawl pass until the earliest second at
\* which the scheduler can admit one.
main_loop_sleep ==
    /\ pc = "for"
    /\ todo = <<>>
    /\ \/ now' = now
       \/ /\ due(now) = {}
          /\ now' \in next_due_times
          /\ \A t \in next_due_times : now' <= t
    /\ pc' = "query"
    /\ UNCHANGED <<today, adaptive, schedVars, marathons, callerVars,
                   running, todo, dbVars, image_queue, log, fetcherVars,
                   workerVars>>

\* _crawl_participants has not been entered
NotCrawled ==
    [lpf |-> last_participant_fetch, cache |-> CACHE, results |-> <<>>,
     fetched |-> {}, failed |-> {}, unparsed |-> {}, raised |-> {},
     cause |-> "none"]

LogEntry(mid, outcome, crawled, keys, db) ==
    [mid |-> mid, outcome |-> outcome, fetched |-> crawled.fetched,
     failed |-> crawled.failed, unparsed |-> crawled.unparsed,
     raised |-> crawled.raised, cause |-> crawled.cause,
     results |-> crawled.results, keys |-> keys, db |-> db]

\* _process_marathon returns at time t with this scheduler, cache, database
\* and queue
Return(entry, lmr, fc, lpf, c, saved, t) ==
    /\ last_marathon_run' = lmr
    /\ failure_count' = fc
    /\ last_participant_fetch' = lpf
    /\ CACHE' = c
    /\ participants' = saved.participants
    /\ splits' = saved.splits
    /\ assets' = saved.assets
    /\ image_queue' = saved.image_queue
    /\ now' = t
    /\ todo' = Tail(todo)
    /\ log' = Append(log, entry)
    /\ UNCHANGED <<today, adaptive, marathons, callerVars, running, pc,
                   workerVars>>

Unsaved ==
    [participants |-> participants, splits |-> splits, assets |-> assets,
     image_queue |-> image_queue, keys |-> {}, db |-> "none"]

\* Mutant: no except branch, the exception leaves the for loop of _main_loop
OnException_Uncaught(mid, crawled, t) ==
    /\ last_participant_fetch' = crawled.lpf
    /\ CACHE' = crawled.cache
    /\ now' = t
    /\ todo' = <<>>
    /\ log' = Append(log, LogEntry(mid, "exception", crawled, {}, "none"))
    /\ UNCHANGED <<last_marathon_run, failure_count, dbVars, image_queue,
                   today, adaptive, marathons, callerVars, running, pc,
                   workerVars>>

\* The except branch of _process_marathon at time t
OnException(mid, crawled, t) ==
    Return(LogEntry(mid, "exception", crawled, {}, "none"),
           mark_marathon_run(last_marathon_run, mid, t),
           IF adaptive THEN record_failure_count(failure_count, mid)
                       ELSE failure_count,
           crawled.lpf, crawled.cache, Unsaved, t)

\* _process_marathon(marathon) for the next marathon of the iteration
process_marathon ==
    /\ pc = "for"
    /\ todo # <<>>
    /\ LET mid         == Head(todo)
           marathon    == marathons[mid]
           refresh_sec == refresh_sec_of(marathon)
           ps          == active_participants(mid)
       IN  IF before_event_date(marathon.event_date, today)
           THEN Return(LogEntry(mid, "before_event_date", NotCrawled, {}, "none"),
                       last_marathon_run, failure_count,
                       last_participant_fetch, CACHE, Unsaved, now)
           ELSE IF ~should_run_marathon(mid, refresh_sec, now)
           THEN Return(LogEntry(mid, "not_due", NotCrawled, {}, "none"),
                       last_marathon_run, failure_count,
                       last_participant_fetch, CACHE, Unsaved, now)
           ELSE \E raise \in RaisePoints, d \in Durations :
             IF raise = "query"
             THEN OnException(mid, [NotCrawled EXCEPT !.cause = "query"],
                              now + d)
             ELSE IF ps = <<>>
             THEN Return(LogEntry(mid, "no_participants", NotCrawled, {}, "none"),
                         mark_marathon_run(last_marathon_run, mid, now + d),
                         failure_count, last_participant_fetch, CACHE,
                         Unsaved, now + d)
             ELSE \E inp \in [{ps[i] : i \in 1 .. Len(ps)} -> FetchInputs],
                     fail_at \in FailPoints :
               LET crawled == crawl_participants(mid, ps, inp,
                                                 last_participant_fetch,
                                                 CACHE, now)
                   saved   == save_results(crawled.results, now + d, fail_at)
               IN  IF raise = "crawl"
                   THEN OnException(mid, [crawled EXCEPT !.cause = "crawl"],
                                    now + d)
                   ELSE IF crawled.cause = "participant"
                   THEN OnException(mid, crawled, now + d)
                   ELSE Return(LogEntry(mid, "ok", crawled, saved.keys,
                                        saved.db),
                               mark_marathon_run(last_marathon_run, mid,
                                                 now + d),
                               IF adaptive
                               THEN record_success_count(failure_count, mid)
                               ELSE failure_count,
                               crawled.lpf, crawled.cache, saved, now + d)

\* Mutant: one None for all the workers
sentinels_One == <<Sentinel>>

\* for _ in self.image_workers: self.image_queue.put(None)
sentinels == [i \in 1 .. NumImageWorkers |-> Sentinel]

\* KeyboardInterrupt leaves the loop; shutdown() puts one None per worker
shutdown ==
    /\ running
    /\ running' = FALSE
    /\ pc' = "done"
    /\ todo' = <<>>
    /\ log' = <<>>
    /\ image_queue' = image_queue \o sentinels
    /\ UNCHANGED <<now, today, adaptive, schedVars, marathons, callerVars,
                   dbVars, fetcherVars,
                   workerVars>>

Next ==
    \/ run
    \/ main_loop_query
    \/ process_marathon
    \/ main_loop_sleep
    \/ shutdown

Spec == Init /\ [][Next]_vars

----------------------------------------------------------------------------
(* The engine restarted on a database of an earlier run: both participants  *)
(* run marathon 1 and have a stored 10km split; the cache is empty.         *)

PairElapsed == 2     \* seconds explored: the first tick of each marathon

PairTable ==
    [p \in Participants |-> ParticipantRow(1, IF p = 1 THEN "101" ELSE "202", 1)]

\* The rows the earlier run stored, one refresh period before the restart
StoredRun ==
    [p \in Participants |-> SplitRow(p, Row10km, Epoch - DefaultRefreshSec)]

PairInit ==
    /\ now = Epoch
    /\ today = Today
    /\ adaptive \in BOOLEAN
    /\ last_marathon_run = [m \in Marathons |-> 0]
    /\ failure_count = [m \in Marathons |-> 0]
    /\ last_participant_fetch = [p \in Participants |-> 0]
    /\ marathons \in EngineTables
    /\ calls = <<>>
    /\ ncalls = 0
    /\ running = FALSE
    /\ pc = "init"
    /\ todo = <<>>
    /\ participants = PairTable
    /\ splits = StoredRun
    /\ assets = <<>>
    /\ image_queue = <<>>
    /\ log = <<>>
    /\ CACHE = <<>>
    /\ futures = {}
    /\ myresult_jobs = <<>>
    /\ fetches = [p \in Participants |-> NoFetch]
    /\ in_q = <<>>
    /\ mr_worker = Idle
    /\ out_q = [p \in Participants |-> <<>>]
    /\ image_workers = [w \in 1 .. NumImageWorkers |-> "new"]
    /\ image_tasks = [w \in 1 .. NumImageWorkers |-> NoTask]
    /\ files = <<>>

PairNext == Next /\ now' - Epoch <= PairElapsed

PairSpec == PairInit /\ [][PairNext]_vars

----------------------------------------------------------------------------
(* crawler/fetcher.py fetch(), crawler/worker.py and the threads of         *)
(* _crawl_participants: one tick after another, each for a marathon whose   *)
(* url_template has some host.                                              *)

MaxInbox == 0     \* requests left in in_q when a tick may start

\* Hosts of url templates, and of a URL without a hostname
Hosts == {"myresult.co.kr", "www.spct.co.kr", "smartchip.co.kr",
          "example.com", ""}

\* h in host, for the hosts above
contains(host, h) ==
    \/ host = h
    \/ host = "www.spct.co.kr" /\ h = "spct.co.kr"

\* any(h in host for h in ["myresult.co.kr", "spct.co.kr", "smartchip.co.kr"])
worker_first(host) ==
    \E h \in {"myresult.co.kr", "spct.co.kr", "smartchip.co.kr"} :
        contains(host, h)

\* What the browser worker puts on out_q: the page, "JSON::" and a body, or
\* "" for a request that raised; what the HTTP client gives: r.text, possibly
\* empty, or an exception
WorkerAnswers == {"html", "JSON::{}", ""}
HttpOutcomes  == {"html", "", "raise"}

WorkerInit ==
    /\ now = Epoch
    /\ today = Today
    /\ adaptive = FALSE
    /\ last_marathon_run = [m \in Marathons |-> 0]
    /\ failure_count = [m \in Marathons |-> 0]
    /\ last_participant_fetch = [p \in Participants |-> 0]
    /\ marathons \in SchedTables
    /\ marathons[1].refresh_sec = DefaultRefreshSec
    /\ calls = <<>>
    /\ ncalls = 0
    /\ running = TRUE
    /\ pc = "for"
    /\ todo = <<>>
    /\ participants = ParticipantsTable
    /\ splits = <<>>
    /\ assets = <<>>
    /\ image_queue = <<>>
    /\ log = <<>>
    /\ CACHE = <<>>
    /\ futures = {}
    /\ myresult_jobs = <<>>
    /\ fetches = [p \in Participants |-> NoFetch]
    /\ in_q = <<>>
    /\ mr_worker = Idle
    /\ out_q = [p \in Participants |-> <<>>]
    /\ image_workers = [w \in 1 .. NumImageWorkers |-> "get"]
    /\ image_tasks = [w \in 1 .. NumImageWorkers |-> NoTask]
    /\ files = <<>>

notCrawlVars ==
    <<now, today, adaptive, schedVars, marathons, callerVars, running, todo,
      dbVars, image_queue, log, fetcherVars, image_workers, image_tasks,
      files>>

\* A fetch() call has returned or raised
finished(f) == f.state \in {"returned", "raised"}

\* _crawl_participants, the for loop over the participants that pass the rate
\* limit: a myresult.co.kr URL becomes a serial job, any other URL a task of
\* the thread pool
crawl_dispatch(host, ps) ==
    /\ pc = "for"
    /\ Len(in_q) <= MaxInbox
    /\ LET serial == contains(host, "myresult.co.kr")
       IN  /\ myresult_jobs' = IF serial THEN SortedSeq(ps) ELSE <<>>
           /\ futures' = IF serial THEN {} ELSE ps
    /\ fetches' = [p \in Participants |->
                      IF p \in ps THEN [NoFetch EXCEPT !.host = host]
                      ELSE NoFetch]
    /\ out_q' = [p \in Participants |-> <<>>]
    /\ pc' = "pool"
    /\ UNCHANGED <<in_q, mr_worker, notCrawlVars>>

\* The thread that runs the fetch() for participant p: a pool thread while
\* the pool is open, the main thread for the first serial job
runs_fetch(p) ==
    \/ pc = "pool" /\ p \in futures
    \/ pc = "serial" /\ myresult_jobs # <<>> /\ Head(myresult_jobs) = p

\* out_q = Queue() in _MyResultWorker.fetch: an object that is none of the
\* queues the worker's outstanding requests of the participant hold
new_queue(p) ==
    LET held == {in_q[i].q : i \in {k \in 1 .. Len(in_q) : in_q[k].pid = p}}
                \cup {mr_worker.q : x \in {y \in {1} : mr_worker.pid = p}}
    IN  CHOOSE n \in 0 .. Cardinality(held) :
            n \notin held /\ \A k \in 0 .. (n - 1) : k \in held

\* Mutant: every host goes to the HTTP client
routed_to_worker_Never(host, worker_raises) == FALSE

\* fetch() hands the URL to the browser worker: the host is one of the three
\* and get_mr_worker().fetch does not raise
routed_to_worker(host, worker_raises) ==
    worker_first(host) /\ ~worker_raises

\* fetch(): the request goes to the browser worker for the three hosts, to
\* the HTTP client for any other host or when the worker call raises
fetch_start(p, worker_raises) ==
    /\ runs_fetch(p)
    /\ fetches[p].state = "none"
    /\ worker_raises => worker_first(fetches[p].host)
    /\ IF routed_to_worker(fetches[p].host, worker_raises)
       THEN /\ in_q' = Append(in_q, [pid |-> p, host |-> fetches[p].host,
                                     live |-> TRUE, q |-> new_queue(p)])
            /\ fetches' = [fetches EXCEPT ![p].state = "waiting",
                                          ![p].q = new_queue(p),
                                          ![p].tried = <<"worker">>]
       ELSE /\ in_q' = in_q
            /\ fetches' = [fetches EXCEPT
                             ![p].state = "http",
                             ![p].worker =
                                 IF worker_raises THEN "raise" ELSE "none",
                             ![p].tried =
                                 IF worker_raises
                                 THEN <<"worker", "http">> ELSE <<"http">>]
    /\ UNCHANGED <<pc, futures, myresult_jobs, mr_worker, out_q,
                   notCrawlVars>>

\* _MyResultWorker._run: in_q.get()
mr_worker_get ==
    /\ mr_worker = Idle
    /\ in_q # <<>>
    /\ mr_worker' = Head(in_q)
    /\ in_q' = Tail(in_q)
    /\ UNCHANGED <<pc, futures, myresult_jobs, fetches, out_q, notCrawlVars>>

\* _MyResultWorker._run: the one out_q.put of the request; nobody reads the
\* out_q of a request whose caller has given up
mr_worker_put(answer) ==
    /\ mr_worker # Idle
    /\ out_q' = IF mr_worker.live
                THEN [out_q EXCEPT ![mr_worker.pid] =
                         Append(@, [body |-> answer, q |-> mr_worker.q])]
                ELSE out_q
    /\ mr_worker' = Idle
    /\ UNCHANGED <<pc, futures, myresult_jobs, fetches, in_q, notCrawlVars>>

\* _MyResultWorker.fetch returns what out_q.get gave; fetch() returns a
\* non-empty answer and falls through to the HTTP client on an empty one
fetch_answer(p) ==
    /\ fetches[p].state = "waiting"
    /\ out_q[p] # <<>>
    /\ out_q' = [out_q EXCEPT ![p] = Tail(@)]
    /\ fetches' = IF Head(out_q[p]).body # ""
                  THEN [fetches EXCEPT ![p].state = "returned",
                                       ![p].worker = Head(out_q[p]).body,
                                       ![p].result = Head(out_q[p]).body]
                  ELSE [fetches EXCEPT ![p].state = "http",
                                       ![p].worker = "",
                                       ![p].tried = <<"worker", "http">>]
    /\ UNCHANGED <<pc, futures, myresult_jobs, in_q, mr_worker, notCrawlVars>>

\* Mutant: the request of a caller that gave up keeps a reply queue that the
\* participant's next call reads
abandon_Shared(req, p) == req

abandon(req, p) == IF req.pid = p THEN [req EXCEPT !.live = FALSE] ELSE req

\* _MyResultWorker.fetch: out_q.get(timeout=timeout + 8) raises Empty, ""
\* is returned and fetch() falls through to the HTTP client; the request
\* stays where it is, in in_q or with the worker
fetch_timeout(p) ==
    /\ fetches[p].state = "waiting"
    /\ out_q[p] = <<>>
    /\ in_q' = [i \in 1 .. Len(in_q) |-> abandon(in_q[i], p)]
    /\ mr_worker' = IF mr_worker = Idle THEN Idle ELSE abandon(mr_worker, p)
    /\ fetches' = [fetches EXCEPT ![p].state = "http",
                                  ![p].worker = "",
                                  ![p].tried = <<"worker", "http">>]
    /\ UNCHANGED <<pc, futures, myresult_jobs, out_q, notCrawlVars>>

\* fetch(): get_session().get + raise_for_status; r.text is returned, an
\* exception is raised again
fetch_http(p, outcome) ==
    /\ fetches[p].state = "http"
    /\ fetches' = IF outcome = "raise"
                  THEN [fetches EXCEPT ![p].state = "raised",
                                       ![p].http = outcome]
                  ELSE [fetches EXCEPT ![p].state = "returned",
                                       ![p].http = outcome,
                                       ![p].result = outcome]
    /\ UNCHANGED <<pc, futures, myresult_jobs, in_q, mr_worker, out_q,
                   notCrawlVars>>

\* Every task of the pool is done
pool_joined == \A p \in futures : finished(fetches[p])

\* The with block of the ThreadPoolExecutor is left: every task is joined
pool_join ==
    /\ pc = "pool"
    /\ pool_joined
    /\ pc' = "serial"
    /\ UNCHANGED <<futures, myresult_jobs, fetches, in_q, mr_worker, out_q,
                   notCrawlVars>>

\* for ... in myresult_jobs: the job's _crawl_one has returned
serial_next ==
    /\ pc = "serial"
    /\ myresult_jobs # <<>>
    /\ finished(fetches[Head(myresult_jobs)])
    /\ myresult_jobs' = Tail(myresult_jobs)
    /\ UNCHANGED <<pc, futures, fetches, in_q, mr_worker, out_q,
                   notCrawlVars>>

\* _crawl_participants returns
crawl_return ==
    /\ pc = "serial"
    /\ myresult_jobs = <<>>
    /\ pc' = "for"
    /\ UNCHANGED <<futures, myresult_jobs, fetches, in_q, mr_worker, out_q,
                   notCrawlVars>>

WorkerNext ==
    \/ \E host \in Hosts, ps \in SUBSET Participants : crawl_dispatch(host, ps)
    \/ \E p \in Participants, wr \in BOOLEAN : fetch_start(p, wr)
    \/ mr_worker_get
    \/ \E answer \in WorkerAnswers : mr_worker_put(answer)
    \/ \E p \in Participants : fetch_answer(p)
    \/ \E p \in Participants : fetch_timeout(p)
    \/ \E p \in Participants, o \in HttpOutcomes : fetch_http(p, o)
    \/ pool_join
    \/ serial_next
    \/ crawl_return

WorkerSpec == WorkerInit /\ [][WorkerNext]_vars

\* The fetches of myresult.co.kr in flight: the request the browser worker is
\* handling, and the HTTP requests of the threads
in_flight ==
    {<<"browser", mr_worker.pid>> : x \in
        {y \in {1} : /\ mr_worker # Idle
                     /\ contains(mr_worker.host, "myresult.co.kr")}}
    \cup {<<"http", p>> : p \in
        {q \in Participants : /\ fetches[q].state = "http"
                              /\ contains(fetches[q].host, "myresult.co.kr")}}

----------------------------------------------------------------------------
(* crawler/engine.py: the image workers, with the main loop running and     *)
(* _save_results putting download jobs on the queue                         *)

MaxQueue == 2     \* entries on image_queue when a job may be put

ImageJobs == {[pid |-> p, url |-> p] : p \in Participants}

ImageInit ==
    /\ now = Epoch
    /\ today = Today
    /\ adaptive = FALSE
    /\ last_marathon_run = [m \in Marathons |-> 0]
    /\ failure_count = [m \in Marathons |-> 0]
    /\ last_participant_fetch = [p \in Participants |-> 0]
    /\ marathons \in SchedTables
    /\ marathons[1].refresh_sec = DefaultRefreshSec
    /\ calls = <<>>
    /\ ncalls = 0
    /\ running = TRUE
    /\ pc = "for"
    /\ todo = <<>>
    /\ participants = ParticipantsTable
    /\ splits = <<>>
    /\ assets = <<>>
    /\ image_queue = <<>>
    /\ log = <<>>
    /\ CACHE = <<>>
    /\ futures = {}
    /\ myresult_jobs = <<>>
    /\ fetches = [p \in Participants |-> NoFetch]
    /\ in_q = <<>>
    /\ mr_worker = Idle
    /\ out_q = [p \in Participants |-> <<>>]
    /\ image_workers = [w \in 1 .. NumImageWorkers |-> "get"]
    /\ image_tasks = [w \in 1 .. NumImageWorkers |-> NoTask]
    /\ files = <<>>

notImageVars ==
    <<now, today, adaptive, schedVars, marathons, callerVars, running, pc,
      todo, dbVars, log, fetcherVars, crawlVars, image_tasks, files>>

\* _save_results: self.image_queue.put((host, usedata, bib, url, referer, pid))
image_put(job) ==
    /\ running
    /\ Len(image_queue) < MaxQueue
    /\ image_queue' = Append(image_queue, job)
    /\ UNCHANGED <<image_workers, notImageVars>>

\* _image_worker: task = self.image_queue.get(); None ends the thread
image_worker_get(w) ==
    /\ image_workers[w] = "get"
    /\ image_queue # <<>>
    /\ image_queue' = Tail(image_queue)
    /\ image_workers' = [image_workers EXCEPT
                           ![w] = IF Head(image_queue) = Sentinel
                                  THEN "done" ELSE "task"]
    /\ UNCHANGED notImageVars

\* _image_worker: the download is skipped, saved, fails or raises; task_done
\* in the finally clause, and the loop goes on
image_worker_task(w) ==
    /\ image_workers[w] = "task"
    /\ image_workers' = [image_workers EXCEPT ![w] = "get"]
    /\ UNCHANGED <<image_queue, notImageVars>>

ImageNext ==
    \/ \E job \in ImageJobs : image_put(job)
    \/ \E w \in 1 .. NumImageWorkers : image_worker_get(w)
    \/ \E w \in 1 .. NumImageWorkers : image_worker_task(w)
    \/ shutdown

ImageSpec == ImageInit /\ [][ImageNext]_vars

\* The threads are scheduled fairly: a worker that can take an entry from the
\* queue, or finish its download, eventually does
FairImageSpec ==
    /\ ImageSpec
    /\ \A w \in 1 .. NumImageWorkers :
          /\ WF_vars(image_worker_get(w))
          /\ WF_vars(image_worker_task(w))

----------------------------------------------------------------------------
(* crawler/engine.py _image_worker and utils/file_utils.py                  *)
(* download_image_to, one statement at a time: the threads take the jobs    *)
(* _save_results left on the queue.  A file is the sequence of the chunks   *)
(* written to it; the body of an image is the chunks 1 .. BodyChunks.       *)

MaxJobs    == 2     \* jobs on image_queue when the workers start
BodyChunks == 2     \* chunks of 8192 bytes in the body of an image

\* os.path.join(CERT_DIR, u, f"{u}-{bib6}") + ext, of participant pid
dest_path(pid) == <<"certs", pid>>

\* Mutant: one temp file per destination, whatever thread writes it
tmp_path_Shared(dest, tid) == dest \o <<"part", 0>>

\* dest_path + f".part.{pid}.{tid}"
tmp_path(dest, tid) == dest \o <<"part", tid>>

\* The whole body of the image was written to the file
complete(content) == content = [i \in 1 .. BodyChunks |-> i]

\* os.path.exists(path)
exists(path) == path \in DOMAIN files

\* open(path, "wb"): the file is created, or truncated
open_wb(fs, path) ==
    [q \in DOMAIN fs \cup {path} |-> IF q = path THEN <<>> ELSE fs[q]]

\* os.remove(path)
remove(fs, path) == [q \in DOMAIN fs \ {path} |-> fs[q]]

\* f.write(chunk) at the offset of the handle; a path that was renamed away
\* is not written through
write(fs, path, offset, chunk) ==
    IF path \notin DOMAIN fs THEN fs
    ELSE [fs EXCEPT ![path] =
            [i \in 1 .. Max(Len(@), offset + 1) |->
                IF i = offset + 1 THEN chunk
                ELSE IF i <= Len(@) THEN @[i] ELSE 0]]

\* os.replace(src, dst)
replace(fs, src, dst) ==
    [q \in (DOMAIN fs \ {src}) \cup {dst} |->
        IF q = dst THEN fs[src] ELSE fs[q]]

\* What an earlier run left of a participant: no image, an image whose path
\* was not stored, an image and its path, a path whose file was deleted
Stored == {[path |-> FALSE, file |-> FALSE], [path |-> FALSE, file |-> TRUE],
           [path |-> TRUE, file |-> TRUE], [path |-> TRUE, file |-> FALSE]}

DownloadInit ==
    /\ now = Epoch
    /\ today = Today
    /\ adaptive = FALSE
    /\ last_marathon_run = [m \in Marathons |-> 0]
    /\ failure_count = [m \in Marathons |-> 0]
    /\ last_participant_fetch = [p \in Participants |-> 0]
    /\ marathons \in SchedTables
    /\ marathons[1].refresh_sec = DefaultRefreshSec
    /\ calls = <<>>
    /\ ncalls = 0
    /\ running = TRUE
    /\ pc = "for"
    /\ todo = <<>>
    /\ splits = <<>>
    /\ assets = <<>>
    /\ log = <<>>
    /\ CACHE = <<>>
    /\ futures = {}
    /\ myresult_jobs = <<>>
    /\ fetches = [p \in Participants |-> NoFetch]
    /\ in_q = <<>>
    /\ mr_worker = Idle
    /\ out_q = [p \in Participants |-> <<>>]
    /\ image_workers = [w \in 1 .. NumImageWorkers |-> "get"]
    /\ image_tasks = [w \in 1 .. NumImageWorkers |-> NoTask]
    /\ \E n \in 1 .. MaxJobs : image_queue \in [1 .. n -> ImageJobs]
    /\ \E st \in [Participants -> Stored] :
          /\ participants =
                [p \in Participants |->
                    [ParticipantsTable[p] EXCEPT
                        !.finish_image_url = IF st[p].path THEN p ELSE NULL,
                        !.finish_image_path =
                            IF st[p].path THEN dest_path(p) ELSE NoPath]]
          /\ files = [q \in {dest_path(p) : p \in {r \in Participants :
                                                      st[r].file}} |->
                         [i \in 1 .. BodyChunks |-> i]]

notDownloadVars ==
    <<now, today, adaptive, schedVars, marathons, callerVars, running, pc,
      todo, splits, assets, log, fetcherVars, crawlVars>>

\* task = self.image_queue.get(); None ends the thread
image_get(w) ==
    /\ image_workers[w] = "get"
    /\ image_queue # <<>>
    /\ image_queue' = Tail(image_queue)
    /\ image_workers' = [image_workers EXCEPT
                           ![w] = IF Head(image_queue) = Sentinel
                                  THEN "done" ELSE "select"]
    /\ image_tasks' = [image_tasks EXCEPT
                         ![w] = IF Head(image_queue) = Sentinel THEN NoTask
                                ELSE [NoTask EXCEPT
                                         !.pid = Head(image_queue).pid]]
    /\ UNCHANGED <<participants, files, notDownloadVars>>

\* SELECT finish_image_path FROM participants WHERE id=?; an exception ends
\* the task
image_select(w) ==
    /\ image_workers[w] = "select"
    /\ \E ok \in BOOLEAN :
          IF ok
          THEN /\ image_tasks' =
                     [image_tasks EXCEPT
                        ![w].p_row =
                            participants[image_tasks[w].pid].finish_image_path]
               /\ image_workers' = [image_workers EXCEPT ![w] = "exists"]
          ELSE /\ image_tasks' = [image_tasks EXCEPT ![w] = NoTask]
               /\ image_workers' = [image_workers EXCEPT ![w] = "get"]
    /\ UNCHANGED <<image_queue, participants, files, notDownloadVars>>

\* if p_row and p_row['finish_image_path'] and os.path.exists(...): continue
image_exists(w) ==
    /\ image_workers[w] = "exists"
    /\ IF image_tasks[w].p_row # NoPath /\ exists(image_tasks[w].p_row)
       THEN /\ image_tasks' = [image_tasks EXCEPT ![w] = NoTask]
            /\ image_workers' = [image_workers EXCEPT ![w] = "get"]
       ELSE /\ image_workers' = [image_workers EXCEPT ![w] = "request"]
            /\ UNCHANGED image_tasks
    /\ UNCHANGED <<image_queue, participants, files, notDownloadVars>>

\* download_image_to up to open(tmp_path, "wb"): the request raises, answers
\* with another status than 200, or the temp file is opened
image_request(w, response) ==
    /\ image_workers[w] = "request"
    /\ IF response = "200"
       THEN /\ files' = open_wb(files, tmp_path(dest_path(image_tasks[w].pid),
                                                w))
            /\ image_workers' = [image_workers EXCEPT ![w] = "write"]
            /\ UNCHANGED image_tasks
       ELSE /\ image_tasks' = [image_tasks EXCEPT ![w] = NoTask]
            /\ image_workers' = [image_workers EXCEPT ![w] = "get"]
            /\ UNCHANGED files
    /\ UNCHANGED <<image_queue, participants, notDownloadVars>>

\* for chunk in resp.iter_content(...): f.write(chunk); the stream may break
\* (the exception is caught, the temp file stays) or end: the file is closed,
\* and removed when less than min_ok_size bytes came
image_write(w, stream) ==
    /\ image_workers[w] = "write"
    /\ LET task == image_tasks[w]
           tmp  == tmp_path(dest_path(task.pid), w)
       IN  CASE stream = "chunk" /\ task.offset < BodyChunks ->
                  /\ files' = write(files, tmp, task.offset, task.offset + 1)
                  /\ image_tasks' = [image_tasks EXCEPT ![w].offset = @ + 1]
                  /\ UNCHANGED image_workers
             [] stream = "end" /\ task.offset = BodyChunks ->
                  /\ image_workers' = [image_workers EXCEPT ![w] = "replace"]
                  /\ UNCHANGED <<files, image_tasks>>
             [] stream = "end" /\ task.offset = 0 ->
                  /\ files' = remove(files, tmp)
                  /\ image_tasks' = [image_tasks EXCEPT ![w] = NoTask]
                  /\ image_workers' = [image_workers EXCEPT ![w] = "get"]
             [] stream = "raise" ->
                  /\ image_tasks' = [image_tasks EXCEPT ![w] = NoTask]
                  /\ image_workers' = [image_workers EXCEPT ![w] = "get"]
                  /\ UNCHANGED files
             [] OTHER -> FALSE
    /\ UNCHANGED <<image_queue, participants, notDownloadVars>>

\* os.replace(tmp_path, dest_path); it raises when the temp file is gone or
\* the file system refuses
image_replace(w, ok) ==
    /\ image_workers[w] = "replace"
    /\ LET dest == dest_path(image_tasks[w].pid)
           tmp  == tmp_path(dest, w)
       IN  IF ok /\ exists(tmp)
           THEN /\ files' = replace(files, tmp, dest)
                /\ image_workers' = [image_workers EXCEPT ![w] = "update"]
                /\ UNCHANGED image_tasks
           ELSE /\ image_tasks' = [image_tasks EXCEPT ![w] = NoTask]
                /\ image_workers' = [image_workers EXCEPT ![w] = "get"]
                /\ UNCHANGED files
    /\ UNCHANGED <<image_queue, participants, notDownloadVars>>

\* UPDATE participants SET finish_image_url=?, finish_image_path=? WHERE
\* id=?; commit.  An exception is printed and nothing is stored
image_update(w) ==
    /\ image_workers[w] = "update"
    /\ \E ok \in BOOLEAN :
          participants' =
              IF ok
              THEN [participants EXCEPT
                      ![image_tasks[w].pid].finish_image_url =
                          image_tasks[w].pid,
                      ![image_tasks[w].pid].finish_image_path =
                          dest_path(image_tasks[w].pid)]
              ELSE participants
    /\ image_tasks' = [image_tasks EXCEPT ![w] = NoTask]
    /\ image_workers' = [image_workers EXCEPT ![w] = "get"]
    /\ UNCHANGED <<image_queue, files, notDownloadVars>>

DownloadNext ==
    \/ \E w \in 1 .. NumImageWorkers : image_get(w)
    \/ \E w \in 1 .. NumImageWorkers : image_select(w)
    \/ \E w \in 1 .. NumImageWorkers : image_exists(w)
    \/ \E w \in 1 .. NumImageWorkers, response \in {"200", "404", "raise"} :
          image_request(w, response)
    \/ \E w \in 1 .. NumImageWorkers, stream \in {"chunk", "end", "raise"} :
          image_write(w, stream)
    \/ \E w \in 1 .. NumImageWorkers, ok \in BOOLEAN : image_replace(w, ok)
    \/ \E w \in 1 .. NumImageWorkers : image_update(w)
    \/ shutdown

DownloadSpec == DownloadInit /\ [][DownloadNext]_vars

----------------------------------------------------------------------------

(* crawler/fetcher.py: callers of fetch_cached, one call at a time *)

MaxCacheElapsed == 32     \* seconds explored by the cache scenario
MaxFetches      == 3      \* calls of fetch() in the cache scenario

\* (url, timeout, verify) keys: one URL with two timeouts
CacheKeys == {<<"url", 10, "None">>, <<"url", 12, "None">>}

Bodies == {"old", "new"}

CacheInit ==
    /\ now = Epoch
    /\ today = Today
    /\ adaptive = FALSE
    /\ last_marathon_run = [m \in Marathons |-> 0]
    /\ failure_count = [m \in Marathons |-> 0]
    /\ last_participant_fetch = [p \in Participants |-> 0]
    /\ marathons \in SchedTables
    /\ marathons[1].refresh_sec = DefaultRefreshSec
    /\ calls = <<>>
    /\ ncalls = 0
    /\ running = FALSE
    /\ pc = "init"
    /\ todo = <<>>
    /\ participants = ParticipantsTable
    /\ splits = <<>>
    /\ assets = <<>>
    /\ image_queue = <<>>
    /\ log = <<>>
    /\ CACHE = <<>>
    /\ futures = {}
    /\ myresult_jobs = <<>>
    /\ fetches = [p \in Participants |-> NoFetch]
    /\ in_q = <<>>
    /\ mr_worker = Idle
    /\ out_q = [p \in Participants |-> <<>>]
    /\ image_workers = [w \in 1 .. NumImageWorkers |-> "new"]
    /\ image_tasks = [w \in 1 .. NumImageWorkers |-> NoTask]
    /\ files = <<>>

notCacheVars ==
    <<today, adaptive, schedVars, marathons, running, pc, todo, dbVars,
      image_queue, log, workerVars>>

\* fetch_cached(url, timeout, verify) at time now; a fetch() takes d seconds
\* and what it returns was served when it returned
Call_fetch_cached(key, body, raises, d) ==
    LET got == fetch_cached(CACHE, key, now,
                            Upstream(raises,
                                     [body |-> body, at |-> now + d]))
    IN  /\ CACHE' = got.cache
        /\ now' = IF got.upstream THEN now + d ELSE now
        /\ now' - Epoch <= MaxCacheElapsed
        /\ ncalls' = IF got.upstream THEN ncalls + 1 ELSE ncalls
        /\ ncalls' <= MaxFetches
        /\ calls' = Remember(Call("fetch_cached", key, now, got, 0), 1)
        /\ UNCHANGED notCacheVars

\* Time passes between calls: up to the last second of a response's life,
\* or to the second it expires
CacheSleep(d) ==
    /\ now + d - Epoch <= MaxCacheElapsed
    /\ now' = now + d
    /\ UNCHANGED <<CACHE, calls, ncalls, notCacheVars>>

CacheNext ==
    \/ \E key \in CacheKeys, body \in Bodies, raises \in BOOLEAN,
          d \in Durations : Call_fetch_cached(key, body, raises, d)
    \/ \E d \in {CACHE_TTL - 1, CACHE_TTL} : CacheSleep(d)

CacheSpec == CacheInit /\ [][CacheNext]_vars

----------------------------------------------------------------------------
(* utils/distance_utils.py: callers of ensure_finish_label, on a list of   *)
(* splits held in memory; _crawl_one calls it with the parsed total and    *)
(* calculate_prediction calls it again with the participant's total.       *)

MaxSplits     == 3     \* splits in a list
MaxLabelCalls == 2     \* calls of ensure_finish_label on a list

\* point_label of a last split: none, a distance, two finish labels
LastLabels == {"", "42.2km", "Finish", "Goal"}

\* point_km of a last split: none, and the distances around total - 1.0 for
\* the totals below and around 41.5 and 43.0
LastKms == {NoKm, 200, 201, 411, 412, 414, 415, 430, 431}

\* race_total_km: None, 0, a half and a full marathon
Totals == {NoKm, 0, 211, 422}

LastRows ==
    {Split(label, km, T(3, 59, 0), T(12, 59, 0), "05:40") :
        label \in LastLabels, km \in LastKms}

\* Earlier splits: under way, at full distance, a finish row
EarlierRows ==
    {Row10km,
     Split("42.2km", 422, T(3, 58, 0), T(12, 58, 0), "05:40"),
     Split("Finish", NoKm, T(3, 58, 30), <<>>, "")}

SplitLists ==
    {<<>>} \cup
    UNION {{pre \o <<last>> :
               pre \in [1 .. n -> EarlierRows], last \in LastRows} :
           n \in 0 .. MaxSplits - 1}

\* A list of splits is in memory: calls[1].result is the list
LabelInit ==
    /\ now = Epoch
    /\ today = Today
    /\ adaptive = FALSE
    /\ last_marathon_run = [m \in Marathons |-> 0]
    /\ failure_count = [m \in Marathons |-> 0]
    /\ last_participant_fetch = [p \in Participants |-> 0]
    /\ marathons \in SchedTables
    /\ marathons[1].refresh_sec = DefaultRefreshSec
    /\ \E rows \in SplitLists : calls = <<Call("splits", 0, NoKm, rows, 0)>>
    /\ ncalls = 0
    /\ running = FALSE
    /\ pc = "init"
    /\ todo = <<>>
    /\ participants = ParticipantsTable
    /\ splits = <<>>
    /\ assets = <<>>
    /\ image_queue = <<>>
    /\ log = <<>>
    /\ CACHE = <<>>
    /\ futures = {}
    /\ myresult_jobs = <<>>
    /\ fetches = [p \in Participants |-> NoFetch]
    /\ in_q = <<>>
    /\ mr_worker = Idle
    /\ out_q = [p \in Participants |-> <<>>]
    /\ image_workers = [w \in 1 .. NumImageWorkers |-> "new"]
    /\ image_tasks = [w \in 1 .. NumImageWorkers |-> NoTask]
    /\ files = <<>>

\* ensure_finish_label(splits, race_total_km) on the list in memory, which it
\* changes in place and returns
Call_ensure_finish_label(race_total_km) ==
    /\ ncalls < MaxLabelCalls
    /\ ncalls' = ncalls + 1
    /\ LET rows == calls[1].result
       IN  calls' = <<Call("ensure_finish_label", 0,
                           [splits |-> rows, race_total_km |-> race_total_km],
                           ensure_finish_label(rows, race_total_km),
                           ncalls')>>
    /\ UNCHANGED <<now, today, adaptive, schedVars, marathons, engineVars>>

LabelNext == \E total \in Totals : Call_ensure_finish_label(total)

LabelSpec == LabelInit /\ [][LabelNext]_vars

----------------------------------------------------------------------------
(* utils/distance_utils.py: a caller of snap_distance with a distance read *)
(* from a page, float(m.group(1)), or with None.                           *)

MaxSnapKm == 1100     \* largest distance passed to snap_distance, in tenths

SnapInputs == {NoKm} \cup (0 .. MaxSnapKm)

\* A distance is in memory: calls[1].result
SnapInit ==
    /\ now = Epoch
    /\ today = Today
    /\ adaptive = FALSE
    /\ last_marathon_run = [m \in Marathons |-> 0]
    /\ failure_count = [m \in Marathons |-> 0]
    /\ last_participant_fetch = [p \in Participants |-> 0]
    /\ marathons \in SchedTables
    /\ marathons[1].refresh_sec = DefaultRefreshSec
    /\ \E km \in SnapInputs : calls = <<Call("km", 0, NoKm, km, 0)>>
    /\ ncalls = 0
    /\ EngineNotStarted

Call_snap_distance ==
    /\ calls[1].op = "km"
    /\ calls' = <<Call("snap_distance", 0, calls[1].result,
                       snap_distance(calls[1].result), 0)>>
    /\ UNCHANGED <<now, today, adaptive, schedVars, marathons, ncalls,
                   engineVars>>

SnapNext == Call_snap_distance

SnapSpec == SnapInit /\ [][SnapNext]_vars

----------------------------------------------------------------------------
(* webapp/services/records.py: a caller of _calculate_net_time_from_clocks *)
(* on a splits table that holds some rows of participant 1.                *)

MaxClockRows == 3     \* stored splits of the participant

\* point_label of the i-th stored row: the labels of a participant differ
ClockLabels == <<"Start", "5km", "10km", "Finish", "42.2km">>

ClockKms == {NoKm, 50, 100, 211}

\* pass_clock: none, two minutes before midnight, two and ten minutes after
Clocks == {<<>>, T(23, 58, 0), T(0, 2, 0), T(0, 10, 0)}

\* A table of n rows; the rows were last written one second apart, in id
\* order or against it
ClockTable(n, km, clk, up) ==
    [i \in 1 .. n |->
        SplitRow(1, Split(ClockLabels[i], km[i], <<>>, clk[i], ""),
                 Epoch + (IF up THEN i ELSE n - i))]

ClockInit ==
    /\ now = Epoch
    /\ today = Today
    /\ adaptive = FALSE
    /\ last_marathon_run = [m \in Marathons |-> 0]
    /\ failure_count = [m \in Marathons |-> 0]
    /\ last_participant_fetch = [p \in Participants |-> 0]
    /\ marathons \in SchedTables
    /\ marathons[1].refresh_sec = DefaultRefreshSec
    /\ calls = <<>>
    /\ ncalls = 0
    /\ running = FALSE
    /\ pc = "init"
    /\ todo = <<>>
    /\ participants = ParticipantsTable
    /\ \E n \in 0 .. MaxClockRows, up \in BOOLEAN :
          \E km \in [1 .. n -> ClockKms], clk \in [1 .. n -> Clocks] :
              splits = ClockTable(n, km, clk, up)
    /\ assets = <<>>
    /\ image_queue = <<>>
    /\ log = <<>>
    /\ CACHE = <<>>
    /\ futures = {}
    /\ myresult_jobs = <<>>
    /\ fetches = [p \in Participants |-> NoFetch]
    /\ in_q = <<>>
    /\ mr_worker = Idle
    /\ out_q = [p \in Participants |-> <<>>]
    /\ image_workers = [w \in 1 .. NumImageWorkers |-> "new"]
    /\ image_tasks = [w \in 1 .. NumImageWorkers |-> NoTask]
    /\ files = <<>>

Call_calculate_net_time_from_clocks(pid) ==
    /\ calls = <<>>
    /\ calls' = <<Call("calculate_net_time_from_clocks", pid, 0,
                       calculate_net_time_from_clocks(splits, pid), 0)>>
    /\ UNCHANGED <<now, today, adaptive, schedVars, marathons, ncalls,
                   engineVars>>

ClockNext == \E pid \in Participants : Call_calculate_net_time_from_clocks(pid)

ClockSpec == ClockInit /\ [][ClockNext]_vars

----------------------------------------------------------------------------
(* webapp/services/prediction.py: a caller of check_finish_status with the  *)
(* splits of a participant and its total distance.                         *)

MaxFinishRows == 2     \* splits passed to check_finish_status

FinishLabels == {"10km", "Finish", "Goal"}

\* point_km: none, 10 km, and the distances around 0.9 of the totals below
\* and around the half marathon's tolerance of 0.8 km
FinishKms == {NoKm, 100, 189, 190, 203, 211}

\* total_km: 21.1 and 21.0, which snaps to 21.1
FinishTotals == {211, 210}

FinishRows ==
    {Split(label, km, net, <<>>, "") :
        label \in FinishLabels, km \in FinishKms,
        net \in {<<>>, T(1, 45, 0)}}

\* The splits are in memory: calls[1].result, with the total in calls[1].arg
FinishInit ==
    /\ now = Epoch
    /\ today = Today
    /\ adaptive = FALSE
    /\ last_marathon_run = [m \in Marathons |-> 0]
    /\ failure_count = [m \in Marathons |-> 0]
    /\ last_participant_fetch = [p \in Participants |-> 0]
    /\ marathons \in SchedTables
    /\ marathons[1].refresh_sec = DefaultRefreshSec
    /\ \E n \in 0 .. MaxFinishRows, total \in FinishTotals :
          \E rows \in [1 .. n -> FinishRows] :
              calls = <<Call("splits", 0, total, rows, 0)>>
    /\ ncalls = 0
    /\ EngineNotStarted

Call_check_finish_status ==
    /\ calls[1].op = "splits"
    /\ calls' = <<Call("check_finish_status", 0,
                       [splits |-> calls[1].result,
                        total_km |-> calls[1].arg],
                       check_finish_status(calls[1].result, calls[1].arg),
                       0)>>
    /\ UNCHANGED <<now, today, adaptive, schedVars, marathons, ncalls,
                   engineVars>>

FinishNext == Call_check_finish_status

FinishSpec == FinishInit /\ [][FinishNext]_vars

----------------------------------------------------------------------------
(* Claims about the scheduler *)

NewCall(op) == calls' # calls /\ calls'[1].op = op

\* C4: CrawlerScheduler.should_run_marathon(m, refresh_sec) returns true if
\* and only if now - last_run[m] >= max(5, refresh_sec); a marathon that never
\* ran has last_run 0 and is admitted.
C4_ShouldRunBasic ==
    [][ (NewCall("should_run_marathon") /\ ~adaptive) =>
          LET c == calls'[1]
          IN  /\ c.result <=>
                    (now - last_marathon_run[c.id] >= Max(5, c.arg))
              /\ last_marathon_run[c.id] = 0 => c.result ]_vars

\* C4 witness: the basic scheduler admits a marathon exactly max(5, refresh)
\* seconds after its last run.
C4_Witness ==
    /\ ~adaptive
    /\ calls # <<>>
    /\ calls[1].op = "should_run_marathon"
    /\ calls[1].result
    /\ last_marathon_run[calls[1].id] > 0
    /\ now - last_marathon_run[calls[1].id] = Max(5, calls[1].arg)

\* C5 as stated: with the adaptive scheduler, refresh_sec >= 5 and f >= 1
\* failures, should_run_marathon is true iff min(refresh_sec * 2^f, 300)
\* seconds have elapsed since last_run.
C5_Original ==
    [][ (NewCall("should_run_marathon") /\ adaptive
           /\ calls'[1].arg >= 5 /\ failure_count[calls'[1].id] >= 1) =>
          LET c == calls'[1]
              f == failure_count[c.id]
          IN  c.result <=>
                 (now - last_marathon_run[c.id] >= Min(c.arg * Pow(2, f), 300))
       ]_vars

\* C5 amended: with the adaptive scheduler, refresh_sec >= 5 and f >= 1
\* failures, should_run_marathon is true iff
\* max(refresh_sec, min(refresh_sec * 2^f, 300)) seconds have elapsed since
\* last_run: the cap of 300 s never shortens the refresh period.
C5_BackoffInterval ==
    [][ (NewCall("should_run_marathon") /\ adaptive
           /\ calls'[1].arg >= 5 /\ failure_count[calls'[1].id] >= 1) =>
          LET c == calls'[1]
              f == failure_count[c.id]
          IN  c.result <=>
                 (now - last_marathon_run[c.id] >=
                     Max(c.arg, Min(c.arg * Pow(2, f), 300)))
       ]_vars

\* C5 witness: after three failures a marathon with refresh_sec 60 is
\* admitted at the capped interval of 300 s.
C5_Witness ==
    /\ adaptive
    /\ calls # <<>>
    /\ calls[1].op = "should_run_marathon"
    /\ calls[1].arg = 60
    /\ failure_count[calls[1].id] = 3
    /\ calls[1].result
    /\ now - last_marathon_run[calls[1].id] = 300

\* The admit interval the scenario of C6 expects after f consecutive failures
\* of a marathon with refresh_sec 60
C6_Expected(f) == IF f = 0 THEN 60 ELSE IF f = 1 THEN 120
                  ELSE IF f = 2 THEN 240 ELSE 300

C6_Offsets == {0, 59, 60, 61, 119, 120, 239, 240, 299, 300, 301}

C7_Original ==
    [][ NewCall("can_fetch_participant") =>
          LET c == calls'[1]
          IN  /\ (Len(calls') >= 2 /\ calls'[2].op = "can_fetch_participant"
                    /\ calls'[2].id = c.id /\ c.arg - calls'[2].arg <= 1)
                 => ~c.result
              /\ (now - last_participant_fetch[c.id] >= 5) => c.result ]_vars

\* C7 amended: a can_fetch_participant(p) call made within 1 s of an earlier
\* call that returned true and was followed by mark_participant_fetch(p), as
\* the engine does, returns false; a call made at least 5 s after the
\* participant's last fetch returns true, whatever jitter sample is drawn.
C7_RateLimit ==
    [][ NewCall("can_fetch_participant") =>
          LET c == calls'[1]
          IN  /\ (Len(calls') >= 3
                    /\ calls'[2].op = "mark_participant_fetch"
                    /\ calls'[2].id = c.id
                    /\ calls'[3].op = "can_fetch_participant"
                    /\ calls'[3].id = c.id /\ calls'[3].result
                    /\ c.arg - calls'[3].arg <= 1)
                 => ~c.result
              /\ (now - last_participant_fetch[c.id] >= 5) => c.result ]_vars

\* C7 witness: an admitted and marked fetch followed within 1 s by a refused
\* call for the same participant.
C7_Witness ==
    /\ Len(calls) >= 3
    /\ calls[1].op = "can_fetch_participant" /\ ~calls[1].result
    /\ calls[2].op = "mark_participant_fetch" /\ calls[2].id = calls[1].id
    /\ calls[3].op = "can_fetch_participant" /\ calls[3].id = calls[1].id
    /\ calls[3].result
    /\ calls[1].arg - calls[3].arg = 1

----------------------------------------------------------------------------
(* Claims about the engine and the database *)

\* A step of _process_marathon, and what it logged
Tick  == Len(log') = Len(log) + 1
Entry == log'[Len(log')]

\* seen_at of the stored row with key k = <<participant_id, point_label>>
SeenAt(stbl, k) ==
    stbl[CHOOSE i \in 1 .. Len(stbl) :
            stbl[i].participant_id = k[1] /\ stbl[i].point_label = k[2]].seen_at

\* A stored finish-labelled split of the participant carries a time value
HasTimedFinishRow(stbl, pid) ==
    \E i \in 1 .. Len(stbl) :
        /\ stbl[i].participant_id = pid
        /\ is_finish_label(stbl[i].point_label)
        /\ carries_time(stbl[i])

\* C1 as stated: once a participant's stored splits make it finished (a stored
\* Finish-labelled split carrying a time value, as check_finish_status
\* evaluates it with total = race_total_km or the marathon total), it is
\* still finished after every later tick.
C1_FinishedMonotonic ==
    [][ \A p \in Participants :
          (/\ HasTimedFinishRow(splits, p)
           /\ finish_status(participants, splits, p).finished)
          => finish_status(participants', splits', p).finished ]_vars

\* C1 failing state: the Finish row first stored from a full-distance last row
\* (with its times) has had its times blanked by a later page, and the
\* participant is no longer finished.
C1_Witness ==
    \E i \in 1 .. Len(splits) :
        /\ splits[i].point_label = "Finish"
        /\ splits[i].point_km = 422
        /\ ~carries_time(splits[i])
        /\ ~finish_status(participants, splits, splits[i].participant_id).finished

\* C2: crawler ticks never delete or relabel split rows: the set of
\* (participant_id, point_label) keys in the splits table only grows, and the
\* row with a given id keeps its participant and its point_label.
C2_SplitRowsKept ==
    [][ /\ BatchKeys(splits) \subseteq BatchKeys(splits')
        /\ Len(splits') >= Len(splits)
        /\ \A i \in 1 .. Len(splits) :
              /\ splits'[i].participant_id = splits[i].participant_id
              /\ splits'[i].point_label = splits[i].point_label ]_vars

\* C2 witness: a committed tick has updated the first stored row after a
\* second row had been inserted next to it.
C2_Witness ==
    /\ Len(splits) >= 2
    /\ splits[1].point_label # splits[2].point_label
    /\ splits[1].seen_at > splits[2].seen_at
    /\ log # <<>>
    /\ log[Len(log)].db = "committed"

\* C3 as stated: when a tick produces a split for a key that an earlier tick
\* has stored, the row's seen_at after the tick is strictly greater than
\* before; seen_at of a stored row never decreases.
C3_Original ==
    /\ [][ Tick => \A k \in Entry.keys :
                      k \in BatchKeys(splits) =>
                         SeenAt(splits', k) > SeenAt(splits, k) ]_vars
    /\ [][ \A k \in BatchKeys(splits) :
              SeenAt(splits', k) >= SeenAt(splits, k) ]_vars

\* C3 amended: when a tick produces a split for a key that an earlier tick
\* has stored and the tick's batch write commits, the row's seen_at after the
\* tick is strictly greater than before; a tick whose batch write fails
\* leaves seen_at as it was; seen_at of a stored row never decreases.
C3_SeenAtAdvances ==
    /\ [][ Tick => \A k \in Entry.keys :
                      k \in BatchKeys(splits) =>
                         IF Entry.db = "committed"
                         THEN SeenAt(splits', k) > SeenAt(splits, k)
                         ELSE SeenAt(splits', k) = SeenAt(splits, k) ]_vars
    /\ [][ \A k \in BatchKeys(splits) :
              SeenAt(splits', k) >= SeenAt(splits, k) ]_vars

\* C3 witness: the tick that just committed produced a split for a row that
\* was stored before a row this tick did not touch.
C3_Witness ==
    /\ log # <<>>
    /\ log[Len(log)].db = "committed"
    /\ \E i \in 1 .. Len(splits) : \E k \in 1 .. Len(splits) :
          /\ i < k
          /\ <<splits[i].participant_id, splits[i].point_label>>
                 \in log[Len(log)].keys
          /\ splits[i].seen_at = now
          /\ splits[k].seen_at < now

\* C8: when a marathon has an event_date and today is before it,
\* _process_marathon returns without changing last_marathon_run, failure_count
\* or last_participant_fetch, without fetching a participant and without
\* writing to the database.
C8_EventDateGate ==
    [][ (/\ Tick
         /\ marathons[Entry.mid].event_date \notin {NoDate, InvalidDate}
         /\ today < marathons[Entry.mid].event_date)
        => /\ last_marathon_run' = last_marathon_run
           /\ failure_count' = failure_count
           /\ last_participant_fetch' = last_participant_fetch
           /\ Entry.fetched = {}
           /\ participants' = participants
           /\ splits' = splits
           /\ assets' = assets ]_vars

\* C8 witness: marathon 1, a day ahead of its event, has just been skipped in
\* an iteration of an engine whose other marathon has run.
C8_Witness ==
    /\ log # <<>>
    /\ log[Len(log)].outcome = "before_event_date"
    /\ today < marathons[log[Len(log)].mid].event_date
    /\ \E o \in Marathons : last_marathon_run[o] > 0

\* C9: an exception raised while processing one marathon is caught at the
\* marathon boundary: the scheduler records a failure for that marathon
\* (record_failure on the adaptive scheduler, mark_marathon_run on the basic
\* one), the remaining marathons of the iteration are still to be processed
\* and can be, and the main loop goes on while running is true.
C9_CaughtAtMarathonBoundary ==
    /\ [][ (Tick /\ Entry.outcome = "exception") =>
              /\ Entry.mid = Head(todo)
              /\ last_marathon_run'[Entry.mid] = now'
              /\ failure_count'[Entry.mid] =
                    IF adaptive THEN failure_count[Entry.mid] + 1
                    ELSE failure_count[Entry.mid]
              /\ \A o \in Marathons \ {Entry.mid} :
                    /\ last_marathon_run'[o] = last_marathon_run[o]
                    /\ failure_count'[o] = failure_count[o]
              /\ todo' = Tail(todo)
              /\ pc' = "for"
              /\ running' ]_vars
    /\ [] (running => pc \in {"query", "for"})
    /\ [] ((/\ running /\ pc = "for" /\ todo # <<>>
            /\ log # <<>> /\ log[Len(log)].outcome = "exception")
              => ENABLED process_marathon)
    /\ [] ((running /\ pc = "query") => ENABLED main_loop_query)
    /\ [] ((running /\ pc = "for" /\ todo = <<>>) => ENABLED main_loop_sleep)

\* C9 witness: in one loop iteration marathon 1 raised and marathon 2 was
\* processed after it.
C9_Witness ==
    /\ running
    /\ Len(log) = 2
    /\ log[1].outcome = "exception"
    /\ log[1].fetched # {}
    /\ log[2].outcome = "no_participants"
    /\ last_marathon_run[log[2].mid] = now

\* C10 as stated: when the batch write of a marathon tick fails, none of that
\* tick's meta, split or asset writes are persisted and the scheduler records
\* a failure for the marathon, so that under the adaptive scheduler its
\* failure_count increases.
C10_BatchFailureRecorded ==
    [][ (Tick /\ Entry.db = "failed") =>
           /\ participants' = participants
           /\ splits' = splits
           /\ assets' = assets
           /\ adaptive =>
                 failure_count'[Entry.mid] = failure_count[Entry.mid] + 1
       ]_vars

\* C10 failing state: the batch write of the tick just processed failed and
\* the adaptive scheduler holds a success for it: failure_count 0, last_run
\* at the end of the tick.
C10_Witness ==
    /\ adaptive
    /\ log # <<>>
    /\ log[Len(log)].db = "failed"
    /\ failure_count[log[Len(log)].mid] = 0
    /\ last_marathon_run[log[Len(log)].mid] = now

----------------------------------------------------------------------------
(* Claims about fetch failures and the batch transaction *)

\* C11 as stated: under the adaptive scheduler, a tick of a marathon in which
\* every participant fetch that was dispatched raised (a transport error that
\* outlived the HTTP retries) ends with a failure recorded for the marathon:
\* its failure_count is one higher, so that the next admit is delayed by the
\* backoff.
C11_FetchFailureRecorded ==
    [][ (/\ Tick
         /\ adaptive
         /\ Entry.fetched # {}
         /\ Entry.failed = Entry.fetched) =>
           failure_count'[Entry.mid] = failure_count[Entry.mid] + 1
       ]_vars

\* C11 failing state: every fetch of the tick just processed raised, the tick
\* ended as a success, and the adaptive scheduler holds no failure for the
\* marathon, which it admits again one refresh period later.
C11_Witness ==
    /\ adaptive
    /\ log # <<>>
    /\ LET e == log[Len(log)]
       IN  /\ e.outcome = "ok"
           /\ e.fetched # {}
           /\ e.failed = e.fetched
           /\ failure_count[e.mid] = 0
           /\ get_backoff_time(e.mid, refresh_sec_of(marathons[e.mid]))
                 = refresh_sec_of(marathons[e.mid])

\* C12: the meta, split and asset batches of a tick are written inside one
\* transaction: after a tick that had results to save, the three tables
\* either hold all three batches (the meta update, the split upserts and the
\* asset upserts of the tick, the transaction committed) or are exactly as
\* before the tick (it failed, or the tick raised before saving).
C12_AllOrNothing ==
    [][ (Tick /\ Entry.results # <<>>) =>
           LET batch == recalculated(split_batch(Entry.results, now'), splits)
               all_three ==
                   /\ participants' = update_meta(participants, Entry.results)
                   /\ splits' = upsert_splits(splits, batch)
                   /\ assets' = upsert_assets(assets,
                                    asset_batch(Entry.results, now'))
               none == dbVars' = dbVars
           IN  /\ all_three \/ none
               /\ Entry.db = "committed" => all_three
               /\ Entry.db # "committed" => none
       ]_vars

\* C12 witness: the transaction of the tick just processed failed with a
\* meta, a split and an asset batch to write, and none of them is stored.
C12_Witness ==
    /\ log # <<>>
    /\ LET e == log[Len(log)]
       IN  /\ e.db = "failed"
           /\ e.keys # {}
           /\ \E i \in 1 .. Len(e.results) :
                 /\ e.results[i].meta.race_label # NULL
                 /\ e.results[i].assets # <<>>
    /\ splits = <<>>
    /\ assets = <<>>
    /\ \A p \in Participants : participants[p].race_label = NULL

----------------------------------------------------------------------------
(* Claims about the fetch path *)

\* The participants whose fetch() of a myresult.co.kr URL is under way
started_myresult ==
    {p \in Participants :
        /\ contains(fetches[p].host, "myresult.co.kr")
        /\ fetches[p].state \in {"waiting", "http"}}

\* C13 as stated: fetches of myresult.co.kr are never in flight concurrently:
\* within a tick they start only after every task of the thread pool has been
\* joined, they run one at a time in the main thread, and the browser worker
\* and the HTTP client together have at most one request of that provider
\* under way.
C13_ProviderMSerial ==
    /\ started_myresult # {} => (pc = "serial" /\ pool_joined)
    /\ Cardinality(started_myresult) <= 1
    /\ Cardinality(in_flight) <= 1

\* C13 failing state: the browser worker is still handling the myresult.co.kr
\* request of a caller that gave up after timeout + 8 s, and the caller's
\* HTTP request to the same provider is under way.
C13_Witness ==
    /\ mr_worker # Idle
    /\ ~mr_worker.live
    /\ contains(mr_worker.host, "myresult.co.kr")
    /\ fetches[mr_worker.pid].state = "http"
    /\ fetches[mr_worker.pid].tried = <<"worker", "http">>
    /\ Cardinality(in_flight) = 2

\* The participants of a log entry whose crawl failed on its own: the fetch
\* raised, parse() raised, or the task raised in the pool
Lost(e) == e.failed \cup e.unparsed \cup e.raised

\* C14: a failure confined to one participant (a fetch error, a parse error
\* or a pool task that raises) gives no split update for that participant,
\* whose stored rows stay as they were; it does not fail the tick, which ends
\* as an exception only when the participants query or the crawl itself
\* raised; and every other participant that was fetched has its result
\* collected, and stored with the tick's seen_at when the batch commits.
C14_FailureConfined ==
    [][ Tick =>
          /\ \A p \in Lost(Entry) :
                /\ StoredSplits(splits', p) = StoredSplits(splits, p)
                /\ \A i \in 1 .. Len(Entry.results) :
                      Entry.results[i].pid = p =>
                          Entry.results[i].splits = <<>>
          /\ Entry.outcome = "exception" => Entry.cause \in {"query", "crawl"}
          /\ Entry.outcome = "ok" =>
                \A p \in Entry.fetched \ Lost(Entry) :
                   \E i \in 1 .. Len(Entry.results) :
                      LET r == Entry.results[i]
                      IN  /\ r.pid = p
                          /\ Entry.db = "committed" =>
                                \A k \in 1 .. Len(r.splits) :
                                   SeenAt(splits',
                                          <<p, r.splits[k].point_label>>)
                                      = now'
       ]_vars

\* C14 witness: in the tick just processed the fetch of participant 1 raised
\* and the task of nobody else did; the tick ended well, participant 1 keeps
\* its stored row with the old seen_at and participant 2 has rows of this tick.
C14_Witness ==
    /\ log # <<>>
    /\ LET e == log[Len(log)]
       IN  /\ e.outcome = "ok"
           /\ e.db = "committed"
           /\ e.fetched = {1, 2}
           /\ e.failed = {1}
           /\ Lost(e) = {1}
           /\ \E k \in e.keys : k[1] = 2
    /\ \E i \in 1 .. Len(splits) :
          splits[i].participant_id = 1 /\ splits[i].seen_at < Epoch
    /\ \E i \in 1 .. Len(splits) :
          splits[i].participant_id = 2 /\ splits[i].seen_at = now
    /\ \A i \in 1 .. Len(splits) :
          splits[i].participant_id = 1 => splits[i].seen_at < Epoch

----------------------------------------------------------------------------
(* Claims about the image queue *)

\* The download jobs the claim allows for the results of a tick: one for each
\* certificate asset of each participant whose result has a finish-labelled
\* split
RECURSIVE certificate_jobs(_)
certificate_jobs(results) ==
    IF results = <<>> THEN <<>>
    ELSE LET r == Head(results)
             certs == SelectSeq(r.assets, LAMBDA a : a.kind = "certificate")
         IN  (IF is_finished(r)
              THEN [i \in 1 .. Len(certs) |->
                       [pid |-> r.pid, url |-> certs[i].url]]
              ELSE <<>>)
             \o certificate_jobs(Tail(results))

\* C15 as stated: _save_results enqueues a download job for a (participant,
\* asset) pair exactly when the participant is finished in this tick and the
\* asset is a certificate with a URL: the jobs a tick adds to image_queue are
\* those, and none for an unfinished participant or an asset of another kind.
C15_CertificateJobsOnly ==
    [][ (Tick /\ Entry.outcome = "ok") =>
           image_queue' = image_queue \o certificate_jobs(Entry.results)
       ]_vars

\* C15 failing state: a download job for the live photo of a finisher is on
\* the image queue.
C15_Witness ==
    /\ log # <<>>
    /\ log[Len(log)].outcome = "ok"
    /\ \E i \in 1 .. Len(log[Len(log)].results) :
          LET r == log[Len(log)].results[i]
          IN  /\ is_finished(r)
              /\ \E a \in 1 .. Len(r.assets) :
                    /\ r.assets[a].kind = "livephoto"
                    /\ \E q \in 1 .. Len(image_queue) :
                          image_queue[q] = [pid |-> r.pid,
                                            url |-> r.assets[a].url]

\* C25: within a tick a download job reaches the image queue only after the
\* tick's upsert has been committed: a tick adds jobs to the queue only when
\* its batch write commits, and when the batch write fails no download job
\* of that tick is on the queue.
C25_JobsAfterCommit ==
    [][ Tick =>
           /\ image_queue' # image_queue => Entry.db = "committed"
           /\ Entry.db = "failed" => image_queue' = image_queue
       ]_vars

\* C25 failing state: the batch write of the tick just processed failed,
\* nothing of it is stored, and the download job for a finisher's
\* certificate is on the image queue
C25_Witness ==
    /\ log # <<>>
    /\ log[Len(log)].db = "failed"
    /\ splits = <<>>
    /\ assets = <<>>
    /\ \E i \in 1 .. Len(log[Len(log)].results) :
          LET r == log[Len(log)].results[i]
          IN  \E a \in 1 .. Len(r.assets) :
                 /\ r.assets[a].kind = "certificate"
                 /\ \E q \in 1 .. Len(image_queue) :
                       image_queue[q] = [pid |-> r.pid, url |-> r.assets[a].url]

\* The number of sentinels on the image queue
queued_sentinels ==
    Cardinality({i \in 1 .. Len(image_queue) : image_queue[i] = Sentinel})

\* The image workers that have left their loop
ended_workers ==
    {w \in 1 .. NumImageWorkers : image_workers[w] = "done"}

\* C16: shutdown stops the main loop and puts exactly one sentinel per image
\* worker on the queue, behind the download jobs already queued; each worker
\* consumes at most one sentinel (the sentinels still queued and the workers
\* that have ended always add up to the number of workers); and with the
\* threads scheduled fairly every image worker eventually ends, none stays
\* blocked on the queue.
C16_WorkersTerminate ==
    /\ [][ (running /\ ~running') =>
              /\ pc' = "done"
              /\ image_queue' =
                    image_queue \o [i \in 1 .. NumImageWorkers |-> Sentinel]
          ]_vars
    /\ [] (queued_sentinels + Cardinality(ended_workers)
              = IF running THEN 0 ELSE NumImageWorkers)
    /\ (~running) ~> (/\ ended_workers = 1 .. NumImageWorkers
                      /\ image_queue = <<>>)

\* C16 witness: after shutdown one worker has ended on its sentinel while
\* another is still downloading a job that was queued ahead of the sentinels.
C16_Witness ==
    /\ ~running
    /\ pc = "done"
    /\ \E w \in 1 .. NumImageWorkers : image_workers[w] = "done"
    /\ \E w \in 1 .. NumImageWorkers : image_workers[w] = "task"

\* C17: fetch_cached returns a stored response without calling fetch() only
\* when an entry for the same (url, timeout, verify) key was stored less than
\* 30 seconds ago; otherwise it calls fetch() and stores the new response
\* only if the fetch returns; a fetch that raises leaves the cache as it
\* was, an entry of another key is never touched, and no response served 30
\* seconds ago or earlier is returned from the cache.
C17_CacheFreshness ==
    [][ NewCall("fetch_cached") =>
          LET call  == calls'[1]
              key   == call.id
              got   == call.result
              fresh == /\ key \in DOMAIN CACHE
                       /\ now - CACHE[key].ts < CACHE_TTL
          IN  /\ ~got.upstream <=> fresh
              /\ ~got.upstream =>
                    /\ ~got.raised
                    /\ got.data = CACHE[key].data
                    /\ now' - got.data.at < CACHE_TTL
                    /\ CACHE' = CACHE
              /\ (got.upstream /\ got.raised) => CACHE' = CACHE
              /\ (got.upstream /\ ~got.raised) =>
                    /\ key \in DOMAIN CACHE'
                    /\ CACHE'[key].data = got.data
                    /\ now' - CACHE'[key].ts < CACHE_TTL
              /\ \A k \in DOMAIN CACHE \ {key} :
                    k \in DOMAIN CACHE' /\ CACHE'[k] = CACHE[k]
       ]_vars

\* C17 witness: a call found the entry of its key 30 seconds old, called
\* fetch() and stored the new response in place of the old one, while the
\* entry of the other key, 30 seconds old as well, stayed.
C17_Witness ==
    /\ calls # <<>>
    /\ calls[1].op = "fetch_cached"
    /\ calls[1].result.upstream
    /\ ~calls[1].result.raised
    /\ calls[1].result.data.body = "new"
    /\ calls[1].arg - Epoch >= CACHE_TTL
    /\ DOMAIN CACHE = CacheKeys
    /\ CACHE[calls[1].id].data.body = "new"
    /\ \E k \in CacheKeys :
          CACHE[k].data.body = "old" /\ now - CACHE[k].ts >= CACHE_TTL

----------------------------------------------------------------------------
(* Claims about fetch()                                                     *)

\* C18, routing: a fetch() call that has started tried the browser worker
\* first exactly when its host contains one of the three names, and a call
\* for any other host tried the HTTP client only
routed(f) ==
    f.state # "none" =>
        IF worker_first(f.host)
        THEN f.tried # <<>> /\ Head(f.tried) = "worker"
        ELSE f.tried = <<"http">> /\ f.worker = "none"

\* C18, fall-through: once the browser worker has raised or given an empty
\* response the HTTP client is asked; a non-empty response of the worker is
\* what the call returns, and the HTTP client is not asked
falls_through(f) ==
    /\ f.worker \in {"raise", ""} =>
           /\ f.tried = <<"worker", "http">>
           /\ f.state \in {"http", "returned", "raised"}
    /\ f.worker \notin {"none", "raise", ""} =>
           /\ f.tried = <<"worker">>
           /\ f.state = "returned"
           /\ f.result = f.worker
           /\ f.http = "none"

\* C18, failure: a failure of the HTTP client is the failure of the call, and
\* a call that returned after asking the HTTP client returned that response
http_failure_raised(f) ==
    /\ f.http = "raise" <=> f.state = "raised"
    /\ (f.state = "returned" /\ f.http # "none") => f.result = f.http

\* C18: fetch() tries the browser worker first for a host containing
\* myresult.co.kr, spct.co.kr or smartchip.co.kr and falls through to the
\* HTTP client when the worker raises or returns an empty response; every
\* other host goes directly to the HTTP client; a failure of the HTTP client
\* is raised to the caller and never becomes a successful result
C18_FetchRouting ==
    \A p \in Participants :
        /\ routed(fetches[p])
        /\ falls_through(fetches[p])
        /\ http_failure_raised(fetches[p])

\* A tick in which one call got the worker's page, and another fell through
\* from an empty worker response to an HTTP client that failed
C18_Witness ==
    \E p, q \in Participants :
        /\ fetches[p].state = "returned"
        /\ fetches[p].tried = <<"worker">>
        /\ fetches[q].state = "raised"
        /\ fetches[q].worker = ""
        /\ fetches[q].tried = <<"worker", "http">>

----------------------------------------------------------------------------
(* Claims about the inferred race fields *)

\* The result of participant p in the tick just processed, if it has one
parse_of(p) == {Entry.results[i].meta : i \in
                   {j \in 1 .. Len(Entry.results) : Entry.results[j].pid = p}}

\* C19: once a participant's race_label or race_total_km is non-null no
\* step of the crawler sets it back to null, and a tick whose parse yields no
\* label, or no distance, leaves the stored label, or distance, unchanged.
C19_MetaNeverReverts ==
    [][ \A p \in Participants :
           /\ participants[p].race_label # NULL
                 => participants'[p].race_label # NULL
           /\ participants[p].race_total_km # NoKm
                 => participants'[p].race_total_km # NoKm
           /\ Tick =>
                 \A meta \in parse_of(p) :
                     /\ meta.race_label = NULL
                           => participants'[p].race_label
                                 = participants[p].race_label
                     /\ meta.race_total_km = NoKm
                           => participants'[p].race_total_km
                                 = participants[p].race_total_km
       ]_vars

\* A committed tick whose parse of a participant had neither a label nor a
\* distance, and the participant still has the label and the distance of an
\* earlier tick
C19_Witness ==
    /\ log # <<>>
    /\ LET e == log[Len(log)]
       IN  /\ e.db = "committed"
           /\ \E i \in 1 .. Len(e.results) :
                 /\ e.results[i].meta.race_label = NULL
                 /\ e.results[i].meta.race_total_km = NoKm
                 /\ participants[e.results[i].pid].race_label # NULL
                 /\ participants[e.results[i].pid].race_total_km # NoKm

----------------------------------------------------------------------------
(* Claims about label normalization *)

\* A total distance is known: race_total_km is neither None nor 0
total_known(race_total_km) == race_total_km \notin {NoKm, 0}

\* The last split is to be promoted, as the specification words it
promoted(last, race_total_km) ==
    /\ ~is_finish_label(last.point_label)
    /\ last.point_km # NoKm
    /\ \/ /\ total_known(race_total_km)
          /\ last.point_km >= race_total_km - 10
       \/ /\ ~total_known(race_total_km)
          /\ 415 <= last.point_km
          /\ last.point_km <= 430

----------------------------------------------------------------------------
(* Claims about distances *)

\* The standard distances within 0.6 km of d, as decimal numbers
standards_near(d) ==
    {STANDARD_DISTANCES[i] : i \in
        {j \in DOMAIN STANDARD_DISTANCES : Abs(d - STANDARD_DISTANCES[j]) <= 6}}

\* C21: snap_distance(d) returns the standard distance s of 5, 10, 21.1,
\* 42.2, 50, 100, 109 for any input d with |d - s| <= 0.6 for some standard
\* s, and returns d unchanged for every other input.  Stated for the inputs
\* that are distances, d > 0 (None, 0 and a negative number give None).
C21_SnapDistance ==
    (calls[1].op = "snap_distance" /\ calls[1].arg > 0) =>
        IF standards_near(calls[1].arg) # {}
        THEN calls[1].result \in standards_near(calls[1].arg)
        ELSE calls[1].result = calls[1].arg

\* C21 failing state: snap_distance(20.5) has returned 20.5, 0.6 km from the
\* half marathon's 21.1
C21_Witness ==
    /\ calls[1].op = "snap_distance"
    /\ calls[1].arg = 205
    /\ 211 \in standards_near(calls[1].arg)
    /\ calls[1].result = 205

----------------------------------------------------------------------------
(* Claims about the net time computed from clocks *)

\* The clocks of a participant's stored splits in course order, in seconds
\* of the day: the rows with a clock, the newest row of each point_km, by
\* point_km
course_clocks(pid) ==
    LET rows == {i \in 1 .. Len(splits) :
                    /\ splits[i].participant_id = pid
                    /\ splits[i].pass_clock # <<>>
                    /\ \A k \in 1 .. Len(splits) :
                          (/\ splits[k].participant_id = pid
                           /\ splits[k].pass_clock # <<>>
                           /\ splits[k].point_km = splits[i].point_km)
                          => splits[k].seen_at <= splits[i].seen_at}
        row_at(km) == CHOOSE i \in rows : splits[i].point_km = km
        kms == SortedSeq({splits[i].point_km : i \in rows})
    IN  [x \in 1 .. Len(kms) |->
            LET c == splits[row_at(kms[x])].pass_clock
            IN  c[1] * 3600 + c[2] * 60 + c[3]]

\* Places where the clock goes backwards
backward_jumps(secs) == {k \in 2 .. Len(secs) : secs[k] < secs[k - 1]}

\* The sum of the adjacent differences c[k] - c[k - 1]
RECURSIVE sum_of_differences(_)
sum_of_differences(secs) ==
    IF Len(secs) < 2 THEN 0
    ELSE (secs[Len(secs)] - secs[Len(secs) - 1])
         + sum_of_differences(SubSeq(secs, 1, Len(secs) - 1))

\* C22: the clock-gap accumulator over a participant's stored splits in
\* course order returns the sum of the adjacent pass_clock differences in
\* whole seconds for a non-decreasing clock sequence, and for a sequence with
\* a single backward jump (midnight crossing) adds 86 400 s exactly once;
\* clocks 23:58:00, 00:02:00, 00:10:00 give 00:12:00.
C22_ClockGapAccumulator ==
    (calls # <<>> /\ calls[1].op = "calculate_net_time_from_clocks") =>
        LET secs == course_clocks(calls[1].id)
            total == sum_of_differences(secs)
        IN  /\ (Len(secs) >= 2 /\ backward_jumps(secs) = {})
                  => calls[1].result = T(total \div 3600,
                                         (total % 3600) \div 60, total % 60)
            /\ (Len(secs) >= 2 /\ Cardinality(backward_jumps(secs)) = 1)
                  => calls[1].result =
                        T((total + 86400) \div 3600,
                          ((total + 86400) % 3600) \div 60,
                          (total + 86400) % 60)
            /\ secs = <<86280, 120, 600>> => calls[1].result = T(0, 12, 0)

\* The accumulator has run over clocks 23:58:00, 00:02:00 and 00:10:00
\* stored in course order and has returned 00:12:00
C22_Witness ==
    /\ calls # <<>>
    /\ calls[1].op = "calculate_net_time_from_clocks"
    /\ course_clocks(calls[1].id) = <<86280, 120, 600>>
    /\ Len(splits) = 3
    /\ calls[1].result = T(0, 12, 0)

----------------------------------------------------------------------------
(* Claims about finish detection *)

\* The total snapped to a standard distance within 0.6 km, as decimal numbers
snapped_total(total_km) ==
    IF standards_near(total_km) # {}
    THEN CHOOSE s \in standards_near(total_km) : TRUE
    ELSE total_km

\* Rule 1: the finish-labelled splits that carry a time
rule1_rows(rows) ==
    {i \in 1 .. Len(rows) :
        is_finish_label(rows[i].point_label) /\ carries_time(rows[i])}

\* Rule 2: the splits that carry a time and lie within the tolerance of the
\* snapped total
rule2_rows(rows, total_km) ==
    {i \in 1 .. Len(rows) :
        /\ carries_time(rows[i])
        /\ split_km(rows[i]) # NoKm
        /\ Abs(split_km(rows[i]) - snapped_total(total_km))
              <= distance_tolerance(snapped_total(total_km))}

\* Rule 3: the last split carries a time at 0.9 of the total or beyond
rule3(rows, total_km) ==
    /\ carries_time(rows[Len(rows)])
    /\ split_km(rows[Len(rows)]) # NoKm
    /\ 10 * split_km(rows[Len(rows)]) >= 9 * total_km

\* C23: check_finish_status applies its rules in order: (1) any
\* finish-labelled split carrying a non-empty net_time or pass_clock makes
\* the participant finished at that row; else (2) scanning the splits in
\* reverse, a split carrying a time whose point_km is within the tolerance
\* for the snapped total makes it finished; else (3) a last split carrying a
\* time with point_km / total_km >= 0.9 makes it finished; else it is not
\* finished.
C23_FinishRules ==
    (calls[1].op = "check_finish_status" /\ calls[1].arg.splits # <<>>) =>
        LET rows   == calls[1].arg.splits
            total  == calls[1].arg.total_km
            result == calls[1].result
            r1     == rule1_rows(rows)
            r2     == rule2_rows(rows, total)
        IN  IF r1 # {}
            THEN \E i \in r1 : result = FinishedAt(rows[i])
            ELSE IF r2 # {}
            THEN result = FinishedAt(rows[CHOOSE i \in r2 :
                                             \A k \in r2 : k <= i])
            ELSE IF rule3(rows, total)
            THEN result = FinishedAt(rows[Len(rows)])
            ELSE result = NotFinished

\* C23 failing state: a Finish split with a net time is followed by a
\* finish-labelled split without any time, and check_finish_status has
\* answered that the participant is not finished
C23_Witness ==
    /\ calls[1].op = "check_finish_status"
    /\ LET rows == calls[1].arg.splits
       IN  /\ Len(rows) = 2
           /\ rows[1].point_label = "Finish"
           /\ carries_time(rows[1])
           /\ is_finish_label(rows[2].point_label)
           /\ ~carries_time(rows[2])
    /\ calls[1].result = NotFinished

----------------------------------------------------------------------------
(* Claims about the net time written for a Finish row *)

\* The clocks of the splits a tick delivered for a participant, in the order
\* of the page, in seconds of the day
delivered_clocks(rows) ==
    LET with_clock == SelectSeq(rows, LAMBDA s : s.pass_clock # <<>>)
    IN  [i \in 1 .. Len(with_clock) |->
            with_clock[i].pass_clock[1] * 3600
            + with_clock[i].pass_clock[2] * 60 + with_clock[i].pass_clock[3]]

\* The stored row of a (participant_id, point_label) key
stored_row(stbl, pid, label) ==
    stbl[CHOOSE i \in 1 .. Len(stbl) :
            stbl[i].participant_id = pid /\ stbl[i].point_label = label]

\* C24: when a tick delivers a Finish split that has a valid pass_clock but
\* no time-shaped net_time, the Finish row written by that tick carries the
\* net_time obtained by the clock-gap accumulator over the participant's
\* splits up to and including that Finish clock.
C24_FinishNetTimeBackfilled ==
    [][ (Tick /\ Entry.db = "committed") =>
           \A i \in 1 .. Len(Entry.results) :
               LET r == Entry.results[i]
                   n == Len(r.splits)
               IN  (/\ n >= 2
                    /\ r.splits[n].point_label = "Finish"
                    /\ r.splits[n].pass_clock # <<>>
                    /\ ~looks_time(r.splits[n].net_time)
                    /\ Len(delivered_clocks(r.splits)) >= 2)
                   => stored_row(splits', r.pid, "Finish").net_time
                         = format_hms(sum_of_differences(
                                          delivered_clocks(r.splits)))
       ]_vars

\* C24 failing state: the tick just committed delivered a 10 km clock and a
\* Finish clock without a net time, and the Finish row it wrote has no
\* net_time
C24_Witness ==
    /\ log # <<>>
    /\ log[Len(log)].db = "committed"
    /\ \E i \in 1 .. Len(log[Len(log)].results) :
          LET r == log[Len(log)].results[i]
              n == Len(r.splits)
          IN  /\ n >= 2
              /\ r.splits[n].point_label = "Finish"
              /\ r.splits[n].pass_clock # <<>>
              /\ r.splits[n].net_time = <<>>
              /\ r.splits[1].pass_clock # <<>>
              /\ stored_row(splits, r.pid, "Finish").pass_clock
                    = r.splits[n].pass_clock
              /\ stored_row(splits, r.pid, "Finish").net_time = <<>>

----------------------------------------------------------------------------
(* Claims about the browser worker's protocol *)

\* C26, replies: the reply queue of a call holds at most one response, and
\* it is the response to the call's own request: the DOM, "JSON::" plus the
\* body, or the empty string
own_reply_only ==
    \A p \in Participants :
        /\ Len(out_q[p]) <= 1
        /\ \A i \in 1 .. Len(out_q[p]) :
              /\ out_q[p][i].q = fetches[p].q
              /\ out_q[p][i].body \in {"html", "JSON::{}", ""}
              /\ fetches[p].state = "waiting"

\* C26, inbox: a request joins the inbox at its end, and the worker takes the
\* request at its head, only when it is handling none
taken_in_arrival_order ==
    in_q' # in_q =>
        \/ \E p \in Participants :
              in_q' = Append(in_q, [pid |-> p, host |-> fetches[p].host,
                                    live |-> TRUE, q |-> fetches'[p].q])
        \/ /\ mr_worker = Idle
           /\ mr_worker' = Head(in_q)
           /\ in_q' = Tail(in_q)
        \/ /\ Len(in_q') = Len(in_q)
           /\ \A i \in 1 .. Len(in_q) :
                 in_q'[i] \in {in_q[i], [in_q[i] EXCEPT !.live = FALSE]}

\* C26, response: the worker is done with a request by putting one response
\* on the request's own queue, which the caller reads unless it gave up; no
\* response comes from anywhere else
one_response_each ==
    /\ (mr_worker # Idle /\ mr_worker' = Idle) =>
          IF mr_worker.live
          THEN \E body \in {"html", "JSON::{}", ""} :
                  out_q' = [out_q EXCEPT ![mr_worker.pid] =
                               Append(@, [body |-> body, q |-> mr_worker.q])]
          ELSE out_q' = out_q
    /\ \A p \in Participants :
          Len(out_q'[p]) > Len(out_q[p]) =>
              /\ mr_worker # Idle
              /\ mr_worker.pid = p
              /\ mr_worker' = Idle

\* C26, timeout: a caller that stops waiting without a response has the empty
\* string, and its request stays with the worker
gives_up_with_empty ==
    \A p \in Participants :
        (/\ fetches[p].state = "waiting"
         /\ fetches'[p].state # "waiting"
         /\ out_q[p] = <<>>
         /\ pc' = pc)
        => /\ fetches'[p].worker = ""
           /\ Len(in_q') = Len(in_q)
           /\ (mr_worker = Idle) <=> (mr_worker' = Idle)

\* C26: browser-worker protocol: requests are taken from the inbox one at a
\* time in arrival order, every FETCH request taken from the inbox receives
\* exactly one response on its own private reply queue (the DOM, "JSON::"
\* plus the body, or the empty string on error), a caller gives up after
\* timeout + 8 s with the empty string, and a response produced after its
\* caller gave up is never delivered to a different caller.
C26_WorkerProtocol ==
    /\ []own_reply_only
    /\ [][taken_in_arrival_order /\ one_response_each
          /\ gives_up_with_empty]_vars

\* The worker has answered the request of a caller that had given up, while
\* the participant's next call waits for the answer to its own request, which
\* is still in the inbox; the stale response is on no queue that is read
C26_Witness ==
    \E p \in Participants :
        /\ fetches[p].state = "waiting"
        /\ fetches[p].q = 1
        /\ out_q[p] = <<>>
        /\ mr_worker = Idle
        /\ in_q = <<[pid |-> p, host |-> fetches[p].host, live |-> TRUE,
                     q |-> 1]>>

----------------------------------------------------------------------------
(* Claims about the image downloads *)

\* Participant p has a finish_image_path whose file is on disk
has_image(p) ==
    /\ participants[p].finish_image_path # NoPath
    /\ exists(participants[p].finish_image_path)

\* The threads that hold an open or closed temp file of their own
writing == {w \in 1 .. NumImageWorkers :
               image_workers[w] \in {"write", "replace"}}

\* No two threads write the same temp file; a destination file on disk is
\* always the whole body; between os.replace and the UPDATE the destination
\* of the thread is on disk
files_whole ==
    /\ \A w1, w2 \in writing :
          w1 # w2 => tmp_path(dest_path(image_tasks[w1].pid), w1)
                       # tmp_path(dest_path(image_tasks[w2].pid), w2)
    /\ \A p \in Participants :
          exists(dest_path(p)) => complete(files[dest_path(p)])
    /\ \A w \in 1 .. NumImageWorkers :
          image_workers[w] = "update" => exists(dest_path(image_tasks[w].pid))

\* A step that changes finish_image_path stores the path of a file that is on
\* disk, whole
stores_whole_file ==
    \A p \in Participants :
        participants'[p].finish_image_path # participants[p].finish_image_path
        => /\ participants'[p].finish_image_path \in DOMAIN files'
           /\ complete(files'[participants'[p].finish_image_path])

\* A participant that has its image keeps it; a thread whose SELECT reads
\* such a participant gets the path, and a thread that holds the path of a
\* file on disk ends the task there: nothing is downloaded or written
skips_stored ==
    /\ \A p \in Participants :
          has_image(p) =>
             /\ participants'[p].finish_image_path
                   = participants[p].finish_image_path
             /\ participants[p].finish_image_path \in DOMAIN files'
    /\ \A w \in 1 .. NumImageWorkers :
          /\ (/\ image_workers[w] = "select"
              /\ image_workers'[w] = "exists"
              /\ has_image(image_tasks[w].pid))
             => /\ image_tasks'[w].p_row # NoPath
                /\ exists(image_tasks'[w].p_row)
                /\ UNCHANGED <<participants, files>>
          /\ (/\ image_workers[w] = "exists"
              /\ image_workers'[w] # "exists"
              /\ image_tasks[w].p_row # NoPath
              /\ exists(image_tasks[w].p_row))
             => /\ image_workers'[w] = "get"
                /\ UNCHANGED <<participants, files>>

\* C27: for any interleaving of the image workers, two of them on the same
\* participant included, finish_image_path is only ever set to a file that
\* was written completely (to a temp file of the writing thread alone,
\* renamed, and only then stored), and a job whose participant already has a
\* finish_image_path that is on disk downloads nothing and writes nothing
C27_ImageWorkers ==
    /\ []files_whole
    /\ [][stores_whole_file /\ skips_stored]_vars

\* Two threads work on the same participant: one has renamed its file and is
\* about to store the path while the other is half way through its temp
\* file; the other participant's job was skipped or is still queued
C27_Witness ==
    \E w1, w2 \in 1 .. NumImageWorkers :
        /\ w1 # w2
        /\ image_tasks[w1].pid = image_tasks[w2].pid
        /\ image_workers[w1] = "update"
        /\ image_workers[w2] = "write"
        /\ image_tasks[w2].offset = 1
        /\ participants[image_tasks[w1].pid].finish_image_path = NoPath

----------------------------------------------------------------------------
(* The engine with a marathon whose refresh_sec is at or below              *)
(* min_marathon_interval: the scheduler admits it every 5 s                 *)

RapidElapsed == 7     \* seconds of engine run time explored, rapid marathon

\* Marathon 1 is refreshed every second, or every min_marathon_interval
RapidTables ==
    {[m \in Marathons |->
         MarathonRow(IF m = 1 THEN r ELSE DefaultRefreshSec,
                     IF m = 1 THEN NoDate ELSE InvalidDate)] :
     r \in {1, min_marathon_interval}}

RapidInit ==
    /\ now = Epoch + MaxElapsed - RapidElapsed
    /\ today = Today
    /\ adaptive \in BOOLEAN
    /\ last_marathon_run = [m \in Marathons |-> 0]
    /\ failure_count = [m \in Marathons |-> 0]
    /\ last_participant_fetch = [p \in Participants |-> 0]
    /\ marathons \in RapidTables
    /\ calls = <<>>
    /\ ncalls = 0
    /\ EngineNotStarted

RapidSpec == RapidInit /\ [][Next]_vars

----------------------------------------------------------------------------
(* Claims about the end of a run *)

\* The tick passed the event date and the scheduler: the marathon was crawled
\* or had nobody to crawl, or the run ended in the except branch
admitted_run == Entry.outcome \in {"no_participants", "ok", "exception"}

\* C28: an admitted _process_marathon run leaves last_run of its marathon at
\* the time it returns, on each path, and of no other marathon; nothing else
\* sets last_run; a marathon is admitted only when max(5, refresh_sec) has
\* passed since the end of its previous run; the run of a marathon without
\* active participants leaves failure_count as it was
C28_LastRunSetOnEveryPath ==
    [][/\ (Tick /\ admitted_run) =>
             /\ last_marathon_run'
                   = [last_marathon_run EXCEPT ![Entry.mid] = now']
             /\ now - last_marathon_run[Entry.mid]
                   >= Max(5, marathons[Entry.mid].refresh_sec)
             /\ Entry.outcome = "no_participants"
                   => failure_count' = failure_count
       /\ ~(Tick /\ admitted_run) => last_marathon_run' = last_marathon_run
      ]_vars

\* Marathon 1 was admitted twice and both runs ended in the except branch,
\* the second one later than it started
C28_Witness ==
    /\ adaptive
    /\ failure_count[1] = 2
    /\ log # <<>>
    /\ log[Len(log)].mid = 1
    /\ log[Len(log)].outcome = "exception"
    /\ last_marathon_run[1] = now
    /\ last_marathon_run[2] > 0
    /\ last_marathon_run[2] < now

----------------------------------------------------------------------------
(* Claims about the rate limit on an admitted tick *)

\* The ids of the active participants of marathon mid
active_ids(mid) ==
    {active_participants(mid)[i] : i \in 1 .. Len(active_participants(mid))}

\* C29: with the default gap of 3 s, jitter below 2 s and minimum interval of
\* 5 s, on a tick the scheduler admits every active participant of the
\* marathon passes can_fetch_participant whatever jitter is drawn, those
\* marked in the previous run included; the tick dispatches them all
C29_NobodyRateLimited ==
    [][(Tick /\ Entry.outcome \in {"ok", "exception"}
             /\ Entry.cause # "query") =>
          /\ \A p \in active_ids(Entry.mid), j \in JitterSamples :
                can_fetch_participant(last_participant_fetch, p, j, now)
          /\ Entry.fetched = active_ids(Entry.mid)
      ]_vars

\* Marathon 1 was admitted again exactly min_marathon_interval after the tick
\* in which participant 1 was marked first, and participant 1 was dispatched
C29_Witness ==
    /\ log # <<>>
    /\ log[Len(log)].mid = 1
    /\ log[Len(log)].outcome = "ok"
    /\ log[Len(log)].fetched = {1}
    /\ last_participant_fetch[1]
          = Epoch + MaxElapsed - RapidElapsed + min_marathon_interval
    /\ last_marathon_run[1] >= last_participant_fetch[1]

----------------------------------------------------------------------------
(* Claims about the columns a split upsert writes *)

\* The rows _save_results hands to the INSERT of this tick
tick_batch == recalculated(split_batch(Entry.results, now'), splits)

\* The last row of the batch for the key of a stored row
batch_row(batch, row) ==
    batch[CHOOSE i \in 1 .. Len(batch) :
             /\ batch[i].participant_id = row.participant_id
             /\ batch[i].point_label = row.point_label
             /\ \A j \in (i + 1) .. Len(batch) :
                   ~(/\ batch[j].participant_id = row.participant_id
                     /\ batch[j].point_label = row.point_label)]

\* C30: a committed tick whose batch hits a stored (participant_id,
\* point_label) row replaces net_time, pass_clock, pace and seen_at of that
\* row by the values of the batch; the row keeps its id (its place in the
\* table), its key and the point_km of the first insert; the stored rows
\* whose key is not in the batch are left as they were
C30_UpsertFrame ==
    [][(Tick /\ Entry.db = "committed") =>
          /\ Len(splits') >= Len(splits)
          /\ \A i \in 1 .. Len(splits) :
                IF <<splits[i].participant_id, splits[i].point_label>>
                      \in Entry.keys
                THEN splits'[i]
                       = [splits[i] EXCEPT
                            !.net_time =
                                batch_row(tick_batch, splits[i]).net_time,
                            !.pass_clock =
                                batch_row(tick_batch, splits[i]).pass_clock,
                            !.pace = batch_row(tick_batch, splits[i]).pace,
                            !.seen_at = now']
                ELSE splits'[i] = splits[i]
      ]_vars

\* The tick just committed delivered a last row at 42.2 km, which was stored
\* on the Finish row an earlier tick had inserted without a distance: the row
\* has the new times and still no point_km, and the 10 km row next to it,
\* absent from this tick, is as the earlier tick left it
C30_Witness ==
    /\ log # <<>>
    /\ log[Len(log)].db = "committed"
    /\ \E r \in {log[Len(log)].results[n] :
                    n \in 1 .. Len(log[Len(log)].results)} :
          /\ Len(r.splits) = 1
          /\ r.splits[1].point_label = "Finish"
          /\ r.splits[1].point_km = 422
          /\ \E i, j \in 1 .. Len(splits) :
                /\ splits[i].participant_id = r.pid
                /\ splits[i].point_label = "Finish"
                /\ splits[i].point_km = NoKm
                /\ splits[i].net_time = r.splits[1].net_time
                /\ splits[i].seen_at = now
                /\ splits[j].participant_id = r.pid
                /\ splits[j].point_label = "10km"
                /\ splits[j].seen_at < now

====
